---- MODULE Spec2Model ----
(***************************************************************************)
(* Model of the Tetris game core of tetris-arcade-machine:                 *)
(*   src/src/renderer/gamePlay.ts   GamePlay, Generator                     *)
(*   src/unnamed/part_003           GameObject and the seven shapes         *)
(*   src/src/renderer/views.ts      the singlePlayer / multiPlayer views    *)
(*   src/src/renderer/playerController.ts (tail)  View, ScoreBoard          *)
(*   src/unnamed/part_007           Keymap                                  *)
(* A cell is <<x, y>> (column, row); sealed[y + 1][x + 1] is the occupancy  *)
(* flag of cell <<x, y>>.  Every handler runs to completion, so every       *)
(* action below is one whole handler.                                       *)
(***************************************************************************)
EXTENDS Integers, Sequences, FiniteSets, TLC

\* ------------------------------------------------------------------ bounds
\* The grid of the model (the program's grid is 10 x 18).
CELL_COUNT_X == 4
CELL_COUNT_Y == 6
\* Piece locks explored in a run of the singlePlayer view, and of the
\* multiPlayer view (both sessions together).
MaxLocks == 6
MaxPeerLocks == 2
\* The largest random shift to the right explored in moveRandom.
MaxRightMoving == 1
\* Matches started per run.
MaxMatches == 2
\* The shapes the random draw of Generator.generateNew is taken from.
DrawnKinds == {"Box", "LineBox"}

\* ------------------------------------------------------------ plain data
GAME_OBJECTS == <<"Box", "TBox", "ZBox", "RZBox", "LBox", "RLBox", "LineBox">>

Cols == 0..(CELL_COUNT_X - 1)
Rows == 0..(CELL_COUNT_Y - 1)

calc(p, dx, dy) == <<p[1] + dx, p[2] + dy>>

\* GameSettings of the three difficulty modes.  levelMultiplier is 1, 1.5, 2
\* and speedMultiplier 1, 1.2, 1.4: they are kept as 2 * levelMultiplier and
\* 10 * speedMultiplier, so that every product below is an exact integer.
buildSettings(mode) ==
    CASE mode = "HARD"   -> [levelMultiplierX2 |-> 4, speedMultiplierX10 |-> 14]
      [] mode = "MEDIUM" -> [levelMultiplierX2 |-> 3, speedMultiplierX10 |-> 12]
      [] mode = "EASY"   -> [levelMultiplierX2 |-> 2, speedMultiplierX10 |-> 10]

PlayerModes == {"EASY", "MEDIUM", "HARD"}

\* a * levelMultiplier, for the multiples of 50 the scoring uses (exact).
TimesLevelMultiplier(a, settings) == (a * settings.levelMultiplierX2) \div 2

\* ---------------------------------------------------------------- shapes
\* The constructors: the four cubes at cords = (0, 0) and the index of
\* mainShape in shapes (0: Box has none).
NewGameObject(kind) ==
    CASE kind = "Box" ->
           [kind |-> kind, rotationIndex |-> "BOTTOM", main |-> 0,
            shapes |-> << <<0, 0>>, <<1, 0>>, <<0, 1>>, <<1, 1>> >>]
      [] kind = "TBox" ->
           [kind |-> kind, rotationIndex |-> "BOTTOM", main |-> 2,
            shapes |-> << <<0, 0>>, <<1, 0>>, <<2, 0>>, <<1, 1>> >>]
      [] kind = "ZBox" ->
           [kind |-> kind, rotationIndex |-> "BOTTOM", main |-> 3,
            shapes |-> << <<1, 0>>, <<2, 0>>, <<1, 1>>, <<0, 1>> >>]
      [] kind = "RZBox" ->
           [kind |-> kind, rotationIndex |-> "BOTTOM", main |-> 3,
            shapes |-> << <<0, 0>>, <<1, 0>>, <<1, 1>>, <<2, 1>> >>]
      [] kind = "LBox" ->
           [kind |-> kind, rotationIndex |-> "BOTTOM", main |-> 2,
            shapes |-> << <<0, 1>>, <<1, 1>>, <<2, 1>>, <<2, 0>> >>]
      [] kind = "RLBox" ->
           [kind |-> kind, rotationIndex |-> "BOTTOM", main |-> 3,
            shapes |-> << <<0, 0>>, <<0, 1>>, <<1, 1>>, <<2, 1>> >>]
      [] kind = "LineBox" ->
           [kind |-> kind, rotationIndex |-> "BOTTOM", main |-> 2,
            shapes |-> << <<0, 1>>, <<1, 1>>, <<2, 1>>, <<3, 1>> >>]

\* Mutant of NextRotation: the states are passed through in the order the
\* enum declares them.
NextRotationDeclared(r) ==
    CASE r = "TOP"    -> "LEFT"
      [] r = "LEFT"   -> "BOTTOM"
      [] r = "BOTTOM" -> "RIGHT"
      [] r = "RIGHT"  -> "TOP"

\* The rotation state rotate() moves to.
NextRotation(r) ==
    CASE r = "BOTTOM" -> "LEFT"
      [] r = "LEFT"   -> "TOP"
      [] r = "TOP"    -> "RIGHT"
      [] r = "RIGHT"  -> "BOTTOM"

\* rotate(): the offsets, relative to mainShape, of the four cubes of the
\* state the piece rotates to, from rotation state r.
RotateOffsets(kind, r) ==
    CASE kind = "TBox" ->
           (CASE r = "BOTTOM" -> << <<0, 0>>, <<0, -1>>, <<0, 1>>, <<1, 0>> >>
              [] r = "LEFT"   -> << <<0, 0>>, <<-1, 0>>, <<1, 0>>, <<0, -1>> >>
              [] r = "TOP"    -> << <<0, 0>>, <<0, -1>>, <<0, 1>>, <<-1, 0>> >>
              [] r = "RIGHT"  -> << <<0, 0>>, <<-1, 0>>, <<1, 0>>, <<0, 1>> >>)
      [] kind = "ZBox" ->
           (CASE r = "BOTTOM" -> << <<0, 0>>, <<1, 0>>, <<1, 1>>, <<0, -1>> >>
              [] r = "LEFT"   -> << <<0, 0>>, <<1, 0>>, <<0, 1>>, <<-1, 1>> >>
              [] r = "TOP"    -> << <<0, 0>>, <<-1, 0>>, <<0, 1>>, <<-1, -1>> >>
              [] r = "RIGHT"  -> << <<0, 0>>, <<0, -1>>, <<1, -1>>, <<-1, 0>> >>)
      [] kind = "RZBox" ->
           (CASE r = "BOTTOM" -> << <<0, 0>>, <<0, 1>>, <<1, 0>>, <<1, -1>> >>
              [] r = "LEFT"   -> << <<0, 0>>, <<-1, 0>>, <<0, 1>>, <<1, 1>> >>
              [] r = "TOP"    -> << <<0, 0>>, <<1, 0>>, <<1, -1>>, <<0, 1>> >>
              [] r = "RIGHT"  -> << <<0, 0>>, <<1, 0>>, <<0, -1>>, <<-1, -1>> >>)
      [] kind = "LBox" ->
           (CASE r = "BOTTOM" -> << <<0, 0>>, <<0, -1>>, <<0, 1>>, <<1, 1>> >>
              [] r = "LEFT"   -> << <<0, 0>>, <<1, 0>>, <<-1, 0>>, <<-1, 1>> >>
              [] r = "TOP"    -> << <<0, 0>>, <<0, 1>>, <<0, -1>>, <<-1, -1>> >>
              [] r = "RIGHT"  -> << <<0, 0>>, <<-1, 0>>, <<1, 0>>, <<1, -1>> >>)
      [] kind = "RLBox" ->
           (CASE r = "BOTTOM" -> << <<0, 0>>, <<0, 1>>, <<0, -1>>, <<1, -1>> >>
              [] r = "LEFT"   -> << <<0, 0>>, <<-1, 0>>, <<1, 0>>, <<1, 1>> >>
              [] r = "TOP"    -> << <<0, 0>>, <<0, -1>>, <<0, 1>>, <<-1, 1>> >>
              [] r = "RIGHT"  -> << <<0, 0>>, <<1, 0>>, <<-1, 0>>, <<-1, -1>> >>)
      [] kind = "LineBox" ->
           (CASE r = "BOTTOM" -> << <<1, 0>>, <<1, -1>>, <<1, 1>>, <<1, 2>> >>
              [] r = "LEFT"   -> << <<0, 1>>, <<1, 1>>, <<-1, 1>>, <<-2, 1>> >>
              [] r = "TOP"    -> << <<-1, 0>>, <<-1, 1>>, <<-1, -1>>, <<-1, -2>> >>
              [] r = "RIGHT"  -> << <<0, -1>>, <<-1, -1>>, <<1, -1>>, <<2, -1>> >>)

\* canRotate(): the offsets it tests in rotation state r.  They are
\* RotateOffsets, except LBox in state LEFT, which tests (1, 0) twice and
\* never (-1, 0).
CanRotateOffsets(kind, r) ==
    IF kind = "LBox" /\ r = "LEFT"
    THEN << <<0, 0>>, <<1, 0>>, <<1, 0>>, <<-1, 1>> >>
    ELSE RotateOffsets(kind, r)

\* ------------------------------------------------------------ GameObject
\* JavaScript's sealed[y][x]: -1 stands for undefined (x outside the row).
\* No caller reads a row outside the grid (moveDown tests getBottom first,
\* check() tests the bounds first).
SealedAt(sealed, x, y) ==
    IF y \in Rows /\ x \in Cols THEN sealed[y + 1][x + 1] ELSE -1

ShapeSet(obj) == {obj.shapes[i] : i \in 1..4}

down(obj)  == [obj EXCEPT !.shapes = [i \in 1..4 |-> calc(obj.shapes[i], 0, 1)]]
left(obj)  == [obj EXCEPT !.shapes = [i \in 1..4 |-> calc(obj.shapes[i], -1, 0)]]
right(obj) == [obj EXCEPT !.shapes = [i \in 1..4 |-> calc(obj.shapes[i], 1, 0)]]

\* getBottom / getLeft / getRight: a forEach that starts from the
\* sentinel -1 and keeps the extreme coordinate.
RECURSIVE FoldBottom(_, _, _)
FoldBottom(shapes, i, y) ==
    IF i > Len(shapes) THEN y
    ELSE FoldBottom(shapes, i + 1,
                    IF y = -1 THEN shapes[i][2]
                    ELSE IF shapes[i][2] > y THEN shapes[i][2] ELSE y)
getBottom(obj) == FoldBottom(obj.shapes, 1, -1)

RECURSIVE FoldLeft(_, _, _)
FoldLeft(shapes, i, x) ==
    IF i > Len(shapes) THEN x
    ELSE FoldLeft(shapes, i + 1,
                  IF x = -1 THEN shapes[i][1]
                  ELSE IF shapes[i][1] < x THEN shapes[i][1] ELSE x)
getLeft(obj) == FoldLeft(obj.shapes, 1, -1)

RECURSIVE FoldRight(_, _, _)
FoldRight(shapes, i, x) ==
    IF i > Len(shapes) THEN x
    ELSE FoldRight(shapes, i + 1,
                   IF x = -1 THEN shapes[i][1]
                   ELSE IF shapes[i][1] > x THEN shapes[i][1] ELSE x)
getRight(obj) == FoldRight(obj.shapes, 1, -1)

\* canGoDown / canGoLeft / canGoRight: the Map keeps, per column (row), the
\* cube lowest (leftmost, rightmost) in it; the move is refused when the
\* cell next to one of these cubes is sealed.
\* Mutant of canGoDown: only the cubes in the lowest row of the piece are
\* looked at.
canGoDownLowestRow(obj, sealed) ==
    LET points == {c \in ShapeSet(obj) : \A d \in ShapeSet(obj) : d[2] <= c[2]}
    IN  \A c \in points : SealedAt(sealed, c[1], c[2] + 1) # 1

canGoDown(obj, sealed) ==
    LET points == {c \in ShapeSet(obj) :
                     \A d \in ShapeSet(obj) : d[1] = c[1] => d[2] <= c[2]}
    IN  \A c \in points : SealedAt(sealed, c[1], c[2] + 1) # 1

canGoLeft(obj, sealed) ==
    LET points == {c \in ShapeSet(obj) :
                     \A d \in ShapeSet(obj) : d[2] = c[2] => d[1] >= c[1]}
    IN  \A c \in points : SealedAt(sealed, c[1] - 1, c[2]) # 1

canGoRight(obj, sealed) ==
    LET points == {c \in ShapeSet(obj) :
                     \A d \in ShapeSet(obj) : d[2] = c[2] => d[1] <= c[1]}
    IN  \A c \in points : SealedAt(sealed, c[1] + 1, c[2]) # 1

\* check(): the point is on the board and not sealed.
check(sealed, p) ==
    /\ p[1] >= 0 /\ p[1] < CELL_COUNT_X
    /\ p[2] >= 0 /\ p[2] < CELL_COUNT_Y
    /\ SealedAt(sealed, p[1], p[2]) # 1

\* Mutant of canRotate: the O piece is allowed to rotate.
canRotateBox(obj, sealed) ==
    IF obj.kind = "Box" THEN TRUE
    ELSE LET m    == obj.shapes[obj.main]
             offs == CanRotateOffsets(obj.kind, obj.rotationIndex)
         IN  \A i \in 1..4 : check(sealed, calc(m, offs[i][1], offs[i][2]))

canRotate(obj, sealed) ==
    IF obj.kind = "Box" THEN FALSE
    ELSE LET m    == obj.shapes[obj.main]
             offs == CanRotateOffsets(obj.kind, obj.rotationIndex)
         IN  \A i \in 1..4 : check(sealed, calc(m, offs[i][1], offs[i][2]))

\* Mutant of rotate: the rotation that leads back to the state BOTTOM puts
\* the piece one row further up.
rotateDrifts(obj) ==
    IF obj.kind = "Box" THEN obj
    ELSE LET m    == obj.shapes[obj.main]
             offs == RotateOffsets(obj.kind, obj.rotationIndex)
             up   == IF obj.rotationIndex = "RIGHT" THEN -1 ELSE 0
         IN  [obj EXCEPT !.rotationIndex = NextRotation(obj.rotationIndex),
                         !.shapes = [i \in 1..4 |-> calc(m, offs[i][1], offs[i][2] + up)],
                         !.main = 1]

\* Mutant of rotate: the last cube is placed with the sign of its column
\* offset flipped.
rotateSlip(obj) ==
    IF obj.kind = "Box" THEN obj
    ELSE LET m    == obj.shapes[obj.main]
             offs == RotateOffsets(obj.kind, obj.rotationIndex)
         IN  [obj EXCEPT !.rotationIndex = NextRotation(obj.rotationIndex),
                         !.shapes = [i \in 1..4 |->
                                       IF i = 4 THEN calc(m, -offs[i][1], offs[i][2])
                                       ELSE calc(m, offs[i][1], offs[i][2])],
                         !.main = 1]

\* rotate(): the four cubes are replaced; mainShape is shapes[0] afterwards
\* (kept for the six-state shapes, reassigned for LineBox).
rotate(obj) ==
    IF obj.kind = "Box" THEN obj
    ELSE LET m    == obj.shapes[obj.main]
             offs == RotateOffsets(obj.kind, obj.rotationIndex)
         IN  [obj EXCEPT !.rotationIndex = NextRotation(obj.rotationIndex),
                         !.shapes = [i \in 1..4 |-> calc(m, offs[i][1], offs[i][2])],
                         !.main = 1]

\* seal(): marks the four cells in sealed (the cubes themselves are handed
\* to buffered by the caller).
RECURSIVE SealCells(_, _, _)
SealCells(sealed, shapes, i) ==
    IF i > Len(shapes) THEN sealed
    ELSE SealCells([sealed EXCEPT ![shapes[i][2] + 1][shapes[i][1] + 1] = 1],
                   shapes, i + 1)
seal(obj, sealed) == SealCells(sealed, obj.shapes, 1)

\* ------------------------------------------------- the placed cubes (bag)
\* buffered is an array of cubes used as an unordered collection: it is
\* kept as a bag, a function from cell to the number of cubes on it.
EmptyBuffered == [c \in {} |-> 0]

BufferedCount(buffered, c) == IF c \in DOMAIN buffered THEN buffered[c] ELSE 0

BufferedPush(buffered, cells) ==
    [c \in (DOMAIN buffered) \cup {cells[i] : i \in 1..Len(cells)} |->
        BufferedCount(buffered, c) + Cardinality({i \in 1..Len(cells) : cells[i] = c})]

\* forEach(b => b.y += dy) on the cubes whose row satisfies the test
\* "y < below" (below = CELL_COUNT_Y + 1 moves them all).
RECURSIVE SumCounts(_, _)
SumCounts(buffered, S) ==
    IF S = {} THEN 0
    ELSE LET c == CHOOSE c \in S : TRUE
         IN  buffered[c] + SumCounts(buffered, S \ {c})

MoveCube(c, below, dy) == IF c[2] < below THEN <<c[1], c[2] + dy>> ELSE c

BufferedShift(buffered, below, dy) ==
    [e \in {MoveCube(c, below, dy) : c \in DOMAIN buffered} |->
        SumCounts(buffered, {c \in DOMAIN buffered : MoveCube(c, below, dy) = e})]

\* Mutant of BufferedFilterRow: the cubes of the cleared row are kept.
BufferedKeepRow(buffered, i) == buffered

BufferedFilterRow(buffered, i) ==
    [c \in {d \in DOMAIN buffered : d[2] # i} |-> buffered[c]]

\* ------------------------------------------------------------------ state
VARIABLES
    gameType,    \* "SINGLEPLAYER" or "MULTIPLAYER": the game view of this run
    game,        \* game[s]: the fields of GamePlay s (1: player 1's, 2: player 2's),
                 \* rows: the rows session s cleared since its last reset, and
                 \* timers: the intervals of s that were set and not cleared
    movables,    \* movables[s]: the queue of Generator s (shape kinds, at the origin)
    view,        \* View.currentView
    countdown,   \* the countdown interval of the game view's onAppend is pending
    scoreBoard,  \* ScoreBoard: unknown, scores, player1Stats, player2Stats
    lock,        \* what the lock of the last handler did (NoLock: it sealed nothing)
    graced,      \* graced[s]: an earlier moveDown found the active piece unable to descend
    streak,      \* streak[s]: latest consecutive locks of s that each cleared a row
    locks,       \* piece locks so far
    matches,     \* matches started
    pushed,      \* the pushLine calls of the last handler: <<session, count>> each
    drawn        \* drawn[s]: multiPlayer view: the shape kinds Generator s returned
                 \* since session s was last reset (since construction before that)

vars == <<gameType, game, movables, view, countdown, scoreBoard,
          lock, graced, streak, locks, matches, pushed, drawn>>

\* The state as one record, the value the handlers below transform.
World ==
    [game |-> game, movables |-> movables, view |-> view, countdown |-> countdown,
     scoreBoard |-> scoreBoard, lock |-> lock, graced |-> graced,
     streak |-> streak, locks |-> locks, matches |-> matches,
     pushed |-> pushed, drawn |-> drawn]

Commit(w) ==
    /\ game' = w.game
    /\ movables' = w.movables
    /\ view' = w.view
    /\ countdown' = w.countdown
    /\ scoreBoard' = w.scoreBoard
    /\ lock' = w.lock
    /\ graced' = w.graced
    /\ streak' = w.streak
    /\ locks' = w.locks
    /\ matches' = w.matches
    /\ pushed' = w.pushed
    /\ drawn' = w.drawn
    /\ UNCHANGED gameType

Games == IF gameType = "SINGLEPLAYER" THEN {1} ELSE {1, 2}

\* otherGame: set by bind() in the multiPlayer view only (0: undefined).
otherGame(s) == IF gameType = "MULTIPLAYER" THEN 3 - s ELSE 0

NoObject == [kind |-> "none", rotationIndex |-> "BOTTOM", main |-> 0, shapes |-> <<>>]
NoStats  == [cleared |-> -1, level |-> -1, points |-> -1, isLoser |-> FALSE]
NoLock   == [s |-> 0]

\* new ScoreBoard() when no scores file exists.  saved is not a field of the
\* class: saved[v] is the number of save() calls made with the value v.
NewScoreBoard ==
    [unknown |-> 0, scores |-> <<>>, player1Stats |-> NoStats, player2Stats |-> NoStats,
     saved |-> [v \in {} |-> 0]]

EmptySealed == [y \in 1..CELL_COUNT_Y |-> [x \in 1..CELL_COUNT_X |-> 0]]

\* new GamePlay(layers) followed by start(): the fields reset() assigns are
\* still undefined (shown as empty / 0 / "EASY"); nothing reads them before
\* reset().
NewGamePlay ==
    [sealed |-> <<>>, movable |-> NoObject, nextMovable |-> NoObject,
     buffered |-> EmptyBuffered, points |-> 0, cleared |-> 0, needToClear |-> 0,
     level |-> 0, combo |-> 0, settings |-> buildSettings("EASY"), speed |-> 0,
     isPlayer1 |-> FALSE, isEnabled |-> FALSE, lastMove |-> TRUE,
     wasLoser |-> FALSE, speedLoop |-> "undefined", timers |-> 0, rows |-> 0]

Init ==
    /\ gameType \in {"SINGLEPLAYER", "MULTIPLAYER"}
    /\ game = [s \in Games |-> [NewGamePlay EXCEPT !.isPlayer1 = (s = 1)]]
    /\ movables = [s \in Games |-> <<>>]
    /\ view = "mainMenu"
    /\ countdown = FALSE
    /\ scoreBoard = NewScoreBoard
    /\ lock = NoLock
    /\ graced = [s \in Games |-> FALSE]
    /\ streak = [s \in Games |-> 0]
    /\ locks = 0
    /\ matches = 0
    /\ pushed = <<>>
    /\ drawn = [s \in Games |-> <<>>]

\* -------------------------------------------------------------- Generator
\* Mutant of nextMovableSet: a bound generator keeps the shape it draws to
\* itself instead of pushing a second instance to its peer.
nextMovableUnpaired(w, s) ==
    IF w.movables[s] # <<>>
    THEN {[w |-> [w EXCEPT !.movables[s] = Tail(w.movables[s]),
                           !.drawn[s] = Append(@, Head(w.movables[s]))],
           obj |-> NewGameObject(Head(w.movables[s]))]}
    ELSE {[w |-> IF otherGame(s) # 0
                 THEN [w EXCEPT !.drawn[s] = Append(@, kind)]
                 ELSE w,
           obj |-> NewGameObject(kind)] : kind \in DrawnKinds}

\* nextMovable(): checkList() then shift().  With an empty queue one random
\* shape is drawn; a bound generator pushes a second instance to its peer.
\* The set of possible <<world, object>> results.
nextMovableSet(w, s) ==
    IF w.movables[s] # <<>>
    THEN {[w |-> [w EXCEPT !.movables[s] = Tail(w.movables[s]),
                           !.drawn[s] = Append(@, Head(w.movables[s]))],
           obj |-> NewGameObject(Head(w.movables[s]))]}
    ELSE {[w |-> IF otherGame(s) # 0
                 THEN [w EXCEPT !.movables[otherGame(s)] = Append(@, kind),
                                !.drawn[s] = Append(@, kind)]
                 ELSE w,
           obj |-> NewGameObject(kind)] : kind \in DrawnKinds}

\* ---------------------------------------------------------------- GamePlay
\* Mutant of moveRandom: the right edge of the grid is not tested.
RECURSIVE moveRandomPastEdge(_, _, _)
moveRandomPastEdge(obj, sealed, rightMoving) ==
    IF rightMoving = 0 THEN obj
    ELSE IF canGoRight(obj, sealed)
         THEN moveRandomPastEdge(right(obj), sealed, rightMoving - 1)
         ELSE obj

\* moveRandom(): up to rightMoving steps to the right, stopping at the first
\* step that is refused.
RECURSIVE moveRandom(_, _, _)
moveRandom(obj, sealed, rightMoving) ==
    IF rightMoving = 0 THEN obj
    ELSE IF getRight(obj) < CELL_COUNT_X - 1 /\ canGoRight(obj, sealed)
         THEN moveRandom(right(obj), sealed, rightMoving - 1)
         ELSE obj

\* Math.floor(Math.random() * (CELL_COUNT_X + 1)), of which the draws up to
\* MaxRightMoving are explored.
RightMovings == {rm \in 0..CELL_COUNT_X : rm <= MaxRightMoving}

\* clearInterval(this.speedLoop): the interval speedLoop refers to stops, if
\* it is running; nothing happens otherwise.
clearInterval(g) ==
    IF g.speedLoop = "live"
    THEN [g EXCEPT !.speedLoop = "cleared", !.timers = @ - 1]
    ELSE g

\* Mutant of resetSpeedInterval: the new interval is started without the
\* previous one being cleared.
resetSpeedIntervalLeaks(g) ==
    LET speed == 500 - (g.level - 1) * g.settings.speedMultiplierX10
    IN  [g EXCEPT !.speed = IF speed <= 0 THEN 20 ELSE speed,
                  !.speedLoop = "live", !.timers = @ + 1]

\* resetSpeedInterval(): the previous interval is cleared, a new one started.
\* speed is 500 - (level - 1) * speedMultiplier * 10, and 20 when that is <= 0.
resetSpeedInterval(g) ==
    LET speed == 500 - (g.level - 1) * g.settings.speedMultiplierX10
        c     == IF g.speedLoop # "undefined" THEN clearInterval(g) ELSE g
    IN  [c EXCEPT !.speed = IF speed <= 0 THEN 20 ELSE speed,
                  !.speedLoop = "live", !.timers = @ + 1]

\* l.reduce((a, b) => a + b)
RECURSIVE reduce(_, _)
reduce(l, i) == IF i > Len(l) THEN 0 ELSE l[i] + reduce(l, i + 1)

\* Mutant of SpliceUnshift: the empty row is appended at the bottom instead
\* of being inserted at the top.
SplicePush(sealed, i) ==
    [y \in 1..CELL_COUNT_Y |->
        IF y = CELL_COUNT_Y THEN [x \in 1..CELL_COUNT_X |-> 0]
        ELSE IF y <= i THEN sealed[y]
        ELSE sealed[y + 1]]

\* sealed.splice(i, 1); sealed.unshift(new Array(CELL_COUNT_X).fill(0))
SpliceUnshift(sealed, i) ==
    [y \in 1..CELL_COUNT_Y |->
        IF y = 1 THEN [x \in 1..CELL_COUNT_X |-> 0]
        ELSE IF y <= i + 1 THEN sealed[y - 1]
        ELSE sealed[y]]

\* Mutant of ClearPass: the pass ends with the first full row it removes.
RECURSIVE ClearPassFirstOnly(_, _, _, _)
ClearPassFirstOnly(sealed, buffered, i, cleared) ==
    IF i >= CELL_COUNT_Y
    THEN [sealed |-> sealed, buffered |-> buffered, cleared |-> cleared]
    ELSE IF reduce(sealed[i + 1], 1) = CELL_COUNT_X
         THEN [sealed |-> SpliceUnshift(sealed, i),
               buffered |-> BufferedShift(BufferedFilterRow(buffered, i), i, 1),
               cleared |-> cleared + 1]
         ELSE ClearPassFirstOnly(sealed, buffered, i + 1, cleared)

\* The forEach of checkAndClearLine from row index i on: every full row is
\* removed, the rows above it move one down, and so do the placed cubes.
RECURSIVE ClearPass(_, _, _, _)
ClearPass(sealed, buffered, i, cleared) ==
    IF i >= CELL_COUNT_Y
    THEN [sealed |-> sealed, buffered |-> buffered, cleared |-> cleared]
    ELSE IF reduce(sealed[i + 1], 1) = CELL_COUNT_X
         THEN ClearPass(SpliceUnshift(sealed, i),
                        BufferedShift(BufferedFilterRow(buffered, i), i, 1),
                        i + 1, cleared + 1)
         ELSE ClearPass(sealed, buffered, i + 1, cleared)

\* Mutant of BaseScore: 100 points per cleared row.
BaseScorePerRow(cleared) == 100 * cleared

\* The base score of the switch in checkAndClearLine.
BaseScore(cleared) ==
    CASE cleared = 1 -> 100
      [] cleared = 2 -> 300
      [] cleared = 3 -> 500
      [] OTHER       -> 1200

\* Mutant of PushCount: one garbage row whatever the lock cleared.
PushCountOne(cleared) == 1

\* The number handed to otherGame.pushLine by the same switch.
PushCount(cleared) == IF cleared >= 4 THEN 4 ELSE cleared

\* Mutant of Score: a level-up zeroes the cleared counter instead of
\* carrying the remainder.
ScoreZeroesRemainder(g, cleared) ==
    LET g1 == IF cleared # 0
              THEN [g EXCEPT
                      !.points = g.points
                                 + TimesLevelMultiplier(BaseScore(cleared) * g.level, g.settings)
                                 + TimesLevelMultiplier(50 * g.combo * g.level, g.settings),
                      !.combo = g.combo + 1]
              ELSE [g EXCEPT !.combo = 0]
        g2 == [g1 EXCEPT !.cleared = g1.cleared + cleared, !.rows = @ + cleared]
    IN  IF g2.cleared >= g2.needToClear
        THEN resetSpeedInterval([g2 EXCEPT !.cleared = 0,
                                           !.level = g2.level + 1,
                                           !.needToClear = (g2.level + 1) * 5])
        ELSE g2

\* Mutant of Score: the level-up waits until cleared exceeds needToClear.
ScoreLevelsUpLate(g, cleared) ==
    LET g1 == IF cleared # 0
              THEN [g EXCEPT
                      !.points = g.points
                                 + TimesLevelMultiplier(BaseScore(cleared) * g.level, g.settings)
                                 + TimesLevelMultiplier(50 * g.combo * g.level, g.settings),
                      !.combo = g.combo + 1]
              ELSE [g EXCEPT !.combo = 0]
        g2 == [g1 EXCEPT !.cleared = g1.cleared + cleared, !.rows = @ + cleared]
    IN  IF g2.cleared > g2.needToClear
        THEN resetSpeedInterval([g2 EXCEPT !.cleared = g2.cleared - g2.needToClear,
                                           !.level = g2.level + 1,
                                           !.needToClear = (g2.level + 1) * 5])
        ELSE g2

\* The part of checkAndClearLine after the switch's pushLine: points, combo,
\* the cleared counter and the level-up.
Score(g, cleared) ==
    LET g1 == IF cleared # 0
              THEN [g EXCEPT
                      !.points = g.points
                                 + TimesLevelMultiplier(BaseScore(cleared) * g.level, g.settings)
                                 + TimesLevelMultiplier(50 * g.combo * g.level, g.settings),
                      !.combo = g.combo + 1]
              ELSE [g EXCEPT !.combo = 0]
        g2 == [g1 EXCEPT !.cleared = g1.cleared + cleared, !.rows = @ + cleared]
    IN  IF g2.cleared >= g2.needToClear
        THEN resetSpeedInterval([g2 EXCEPT !.cleared = g2.cleared - g2.needToClear,
                                           !.level = g2.level + 1,
                                           !.needToClear = (g2.level + 1) * 5])
        ELSE g2

\* The garbage row of pushLine with its gap at column space, and its cubes.
GarbageRow(space) == [x \in 1..CELL_COUNT_X |-> IF x - 1 = space THEN 0 ELSE 1]
GarbageCubes(space) ==
    [c \in {<<j, CELL_COUNT_Y - 1>> : j \in Cols \ {space}} |-> 1]

\* Mutant of ShiftPush: the new row replaces the bottom row and nothing is
\* shifted.
ShiftPushInPlace(sealed, row) ==
    [y \in 1..CELL_COUNT_Y |-> IF y = CELL_COUNT_Y THEN row ELSE sealed[y]]

\* sealed.shift(); sealed.push(row)
ShiftPush(sealed, row) ==
    [y \in 1..CELL_COUNT_Y |-> IF y = CELL_COUNT_Y THEN row ELSE sealed[y + 1]]

BufferedMerge(a, b) ==
    [c \in (DOMAIN a) \cup (DOMAIN b) |-> BufferedCount(a, c) + BufferedCount(b, c)]

\* checkAndClearLine() of session s and pushLine(count) of session s call
\* each other; the gap of each garbage row is random, so each yields the set
\* of worlds the call can end in.  pushRows is the for loop of pushLine with
\* count iterations left.
RECURSIVE checkAndClearLine(_, _)
RECURSIVE pushRows(_, _, _)
RECURSIVE pushLine(_, _, _)
checkAndClearLine(w, s) ==
    LET g    == w.game[s]
        pass == ClearPass(g.sealed, g.buffered, 0, 0)
        w1   == [w EXCEPT !.game[s].sealed = pass.sealed,
                          !.game[s].buffered = pass.buffered]
        afterPush == IF pass.cleared # 0 /\ otherGame(s) # 0
                     THEN pushLine(w1, otherGame(s), PushCount(pass.cleared))
                     ELSE {w1}
    IN  {[w2 EXCEPT !.game[s] = Score(w2.game[s], pass.cleared)] : w2 \in afterPush}

pushRows(w, s, count) ==
    IF count = 0 THEN {w}
    ELSE UNION {
           LET g  == w.game[s]
               w1 == [w EXCEPT
                        !.game[s].buffered = BufferedShift(g.buffered, CELL_COUNT_Y + 1, -1),
                        !.game[s].sealed = ShiftPush(g.sealed, GarbageRow(space))]
           IN  UNION {
                 pushRows([w2 EXCEPT !.game[s].buffered =
                                        BufferedMerge(@, GarbageCubes(space))],
                          s, count - 1) : w2 \in checkAndClearLine(w1, s)}
           : space \in Cols}

\* pushLine(count) of session s: the loop above, count times.
pushLine(w, s, count) ==
    pushRows([w EXCEPT !.pushed = Append(@, <<s, count>>)], s, count)

\* Mutant of disable: the flag is cleared, the interval is left running.
disableKeepsTimer(g) == [g EXCEPT !.isEnabled = FALSE]

\* disable()
disable(g) == clearInterval([g EXCEPT !.isEnabled = FALSE])

\* enable()
enable(g) == resetSpeedInterval([g EXCEPT !.isEnabled = TRUE])

\* Mutant of send: wasLoser is not cleared after it has been handed over.
sendKeepsLoser(w, s) ==
    LET g     == w.game[s]
        stats == [cleared |-> g.cleared, level |-> g.level,
                  points |-> g.points, isLoser |-> g.wasLoser]
    IN  IF g.isPlayer1
        THEN [w EXCEPT !.scoreBoard.player1Stats = stats]
        ELSE [w EXCEPT !.scoreBoard.player2Stats = stats]

\* send(): the stats go to the score board under the session's player flag.
send(w, s) ==
    LET g     == w.game[s]
        stats == [cleared |-> g.cleared, level |-> g.level,
                  points |-> g.points, isLoser |-> g.wasLoser]
        w1    == [w EXCEPT !.game[s].wasLoser = FALSE]
    IN  IF g.isPlayer1
        THEN [w1 EXCEPT !.scoreBoard.player1Stats = stats]
        ELSE [w1 EXCEPT !.scoreBoard.player2Stats = stats]

\* onDestroy() of the singlePlayer view: game.disable().
singlePlayerOnDestroy(w) == [w EXCEPT !.game[1] = disable(@)]

\* Mutant of multiPlayerOnDestroy: only player 1's session is disabled.
multiPlayerOnDestroyFirstOnly(w) ==
    LET w2 == send(send(w, 1), 2)
    IN  [w2 EXCEPT !.game[1] = disable(@)]

\* onDestroy() of the multiPlayer view: both sessions send their stats, then
\* both are disabled.
multiPlayerOnDestroy(w) ==
    LET w2 == send(send(w, 1), 2)
    IN  [w2 EXCEPT !.game[1] = disable(@), !.game[2] = disable(@)]

\* currentView.onDestroy(); the other views leave the sessions alone.
onDestroy(w) ==
    CASE w.view = "singlePlayer" -> singlePlayerOnDestroy(w)
      [] w.view = "multiPlayer"  -> multiPlayerOnDestroy(w)
      [] OTHER -> w

\* View.load(name) for the views whose onAppend leaves the sessions alone.
load(w, name) == [onDestroy(w) EXCEPT !.view = name, !.countdown = FALSE]

\* Mutant of TopOccupied: only row 0 is tested.
TopOccupiedRow0(sealed) == reduce(sealed[1], 1) # 0

\* Mutant of TopOccupied: both rows must be occupied.
TopOccupiedBothRows(sealed) == reduce(sealed[1], 1) # 0 /\ reduce(sealed[2], 1) # 0

\* The game-over test of moveDown.
TopOccupied(sealed) == reduce(sealed[1], 1) # 0 \/ reduce(sealed[2], 1) # 0

\* The lock branch of moveDown from "Go in queue one further" on.
AfterClear(w, s) ==
    UNION {
      {LET g1 == [w.game[s] EXCEPT
                    !.movable = moveRandom(w.game[s].nextMovable, w.game[s].sealed, rm),
                    !.nextMovable = nx.obj]
           w1 == [nx.w EXCEPT !.game[s] = g1]
       IN  IF TopOccupied(g1.sealed)
           THEN LET w2 == [w1 EXCEPT !.game[s] = clearInterval(@)]
                IN  IF gameType = "SINGLEPLAYER"
                    THEN load([w2 EXCEPT !.scoreBoard.unknown = g1.points],
                              "scoreBoardWriter")
                    ELSE load([w2 EXCEPT !.game[s].wasLoser = TRUE], "winBoard")
           ELSE w1
       : rm \in RightMovings}
      : nx \in nextMovableSet(w, s)}

\* Mutant of moveDown: the grace call leaves lastMove set.
moveDownGraceStays(w, s) ==
    LET g == w.game[s]
    IN  IF getBottom(g.movable) = CELL_COUNT_Y - 1 \/ ~canGoDown(g.movable, g.sealed)
        THEN IF g.lastMove
             THEN {[w |-> [w EXCEPT !.graced[s] = TRUE],
                    ret |-> TRUE]}
             ELSE LET w1 == [w EXCEPT
                               !.game[s].buffered =
                                   BufferedPush(g.buffered, g.movable.shapes),
                               !.game[s].sealed = seal(g.movable, g.sealed)]
                      n  == ClearPass(w1.game[s].sealed, w1.game[s].buffered, 0, 0).cleared
                      lk == [s |-> s, n |-> n, points |-> g.points, level |-> g.level,
                             combo |-> g.combo, cleared |-> g.cleared,
                             needToClear |-> g.needToClear,
                             multiplierX2 |-> g.settings.levelMultiplierX2,
                             top |-> \E c \in ShapeSet(g.movable) : c[2] <= 1,
                             sealed |-> w1.game[s].sealed,
                             buffered |-> w1.game[s].buffered,
                             graced |-> w.graced[s], streak |-> w.streak[s]]
                  IN  UNION {
                        {[w |-> [w3 EXCEPT !.lock = lk,
                                           !.graced[s] = FALSE,
                                           !.streak[s] = IF n # 0 THEN @ + 1 ELSE 0,
                                           !.locks = @ + 1],
                          ret |-> FALSE] : w3 \in AfterClear(w2, s)}
                        : w2 \in checkAndClearLine(w1, s)}
        ELSE {[w |-> [w EXCEPT !.game[s].movable = down(g.movable),
                               !.game[s].lastMove = TRUE],
               ret |-> TRUE]}

\* moveDown(): the set of possible outcomes, each the world it leaves and
\* the value it returns.
moveDown(w, s) ==
    LET g == w.game[s]
    IN  IF getBottom(g.movable) = CELL_COUNT_Y - 1 \/ ~canGoDown(g.movable, g.sealed)
        THEN IF g.lastMove
             THEN {[w |-> [w EXCEPT !.game[s].lastMove = FALSE, !.graced[s] = TRUE],
                    ret |-> TRUE]}
             ELSE LET w1 == [w EXCEPT
                               !.game[s].buffered =
                                   BufferedPush(g.buffered, g.movable.shapes),
                               !.game[s].sealed = seal(g.movable, g.sealed)]
                      n  == ClearPass(w1.game[s].sealed, w1.game[s].buffered, 0, 0).cleared
                      lk == [s |-> s, n |-> n, points |-> g.points, level |-> g.level,
                             combo |-> g.combo, cleared |-> g.cleared,
                             needToClear |-> g.needToClear,
                             multiplierX2 |-> g.settings.levelMultiplierX2,
                             top |-> \E c \in ShapeSet(g.movable) : c[2] <= 1,
                             sealed |-> w1.game[s].sealed,
                             buffered |-> w1.game[s].buffered,
                             graced |-> w.graced[s], streak |-> w.streak[s]]
                  IN  UNION {
                        {[w |-> [w3 EXCEPT !.lock = lk,
                                           !.graced[s] = FALSE,
                                           !.streak[s] = IF n # 0 THEN @ + 1 ELSE 0,
                                           !.locks = @ + 1],
                          ret |-> FALSE] : w3 \in AfterClear(w2, s)}
                        : w2 \in checkAndClearLine(w1, s)}
        ELSE {[w |-> [w EXCEPT !.game[s].movable = down(g.movable),
                               !.game[s].lastMove = TRUE],
               ret |-> TRUE]}

\* Mutant of FastDown: one moveDown call, whatever it returns.
FastDownOnce(w, s) == {r.w : r \in moveDown(w, s)}

\* while (true) { if (!this.moveDown()) break; }
RECURSIVE FastDown(_, _)
FastDown(w, s) ==
    UNION {IF r.ret THEN FastDown(r.w, s) ELSE {r.w} : r \in moveDown(w, s)}

\* The same loop with its moveDown calls counted: calls have been made
\* when the next one is.
RECURSIVE FastDownCalls(_, _, _)
FastDownCalls(w, s, calls) ==
    UNION {IF r.ret THEN FastDownCalls(r.w, s, calls + 1)
           ELSE {[w |-> r.w, calls |-> calls + 1]} : r \in moveDown(w, s)}

\* The key handlers start() registers; a key is <<player, command>>.
Commands == {"MOVE_LEFT", "SMOOTH_DOWN", "MOVE_RIGHT", "ROTATE", "FAST_DOWN"}
Keys == {"P1", "P2"} \X Commands

\* Mutant of Ignores: player 1's handlers do not test isPlayer1.
IgnoresForgetsPlayer(g, key) ==
    IF key[1] = "P1" THEN ~g.isEnabled
    ELSE ~g.isEnabled \/ g.isPlayer1

\* The guard every handler opens with: player 1's keys return when
\* !isEnabled || !isPlayer1, player 2's when !isEnabled || isPlayer1.
Ignores(g, key) ==
    IF key[1] = "P1" THEN ~g.isEnabled \/ ~g.isPlayer1
    ELSE ~g.isEnabled \/ g.isPlayer1

\* Mutant of Handler: a move to the side or a rotation that takes place
\* sets lastMove, as a step down does.
HandlerRenewsGrace(w, s, key) ==
    LET g == w.game[s]
        m == [w EXCEPT !.game[s].lastMove = TRUE]
    IN  IF Ignores(g, key) THEN {w}
        ELSE CASE key[2] = "MOVE_LEFT" ->
                    {IF getLeft(g.movable) > 0 /\ canGoLeft(g.movable, g.sealed)
                     THEN [m EXCEPT !.game[s].movable = left(g.movable)] ELSE w}
               [] key[2] = "MOVE_RIGHT" ->
                    {IF getRight(g.movable) < CELL_COUNT_X - 1
                        /\ canGoRight(g.movable, g.sealed)
                     THEN [m EXCEPT !.game[s].movable = right(g.movable)] ELSE w}
               [] key[2] = "ROTATE" ->
                    {IF canRotate(g.movable, g.sealed)
                     THEN [m EXCEPT !.game[s].movable = rotate(g.movable)] ELSE w}
               [] key[2] = "SMOOTH_DOWN" -> {r.w : r \in moveDown(w, s)}
               [] key[2] = "FAST_DOWN" -> FastDown(w, s)

Handler(w, s, key) ==
    LET g == w.game[s]
    IN  IF Ignores(g, key) THEN {w}
        ELSE CASE key[2] = "MOVE_LEFT" ->
                    {IF getLeft(g.movable) > 0 /\ canGoLeft(g.movable, g.sealed)
                     THEN [w EXCEPT !.game[s].movable = left(g.movable)] ELSE w}
               [] key[2] = "MOVE_RIGHT" ->
                    {IF getRight(g.movable) < CELL_COUNT_X - 1
                        /\ canGoRight(g.movable, g.sealed)
                     THEN [w EXCEPT !.game[s].movable = right(g.movable)] ELSE w}
               [] key[2] = "ROTATE" ->
                    {IF canRotate(g.movable, g.sealed)
                     THEN [w EXCEPT !.game[s].movable = rotate(g.movable)] ELSE w}
               [] key[2] = "SMOOTH_DOWN" -> {r.w : r \in moveDown(w, s)}
               [] key[2] = "FAST_DOWN" -> FastDown(w, s)

\* Mutant of emit: session 2's handler treats every key as its player's.
emitToBoth(w, key) ==
    IF gameType = "SINGLEPLAYER" THEN Handler(w, 1, key)
    ELSE UNION {Handler(w1, 2, <<"P2", key[2]>>) : w1 \in Handler(w, 1, key)}

\* Keymap.emit(key): every handler registered for the key runs, session 1's
\* first (its start() ran first).
emit(w, key) ==
    IF gameType = "SINGLEPLAYER" THEN Handler(w, 1, key)
    ELSE UNION {Handler(w1, 2, key) : w1 \in Handler(w, 1, key)}

\* Mutant of reset: the placed cubes are not discarded.
resetKeepsBuffered(w, s, settings) ==
    UNION { UNION {
      {[n2.w EXCEPT !.game[s] =
          [@ EXCEPT !.settings = settings,
                    !.sealed = EmptySealed,
                    !.movable = moveRandom(n1.obj, EmptySealed, rm),
                    !.nextMovable = n2.obj,
                    !.points = 0, !.level = 1, !.combo = 0,
                    !.cleared = 0, !.needToClear = 5, !.rows = 0],
          !.graced[s] = FALSE, !.streak[s] = 0]
       : n2 \in nextMovableSet(n1.w, s)}
      : rm \in RightMovings}
      : n1 \in nextMovableSet([w EXCEPT !.drawn[s] = <<>>], s)}

\* reset(settings): the possible outcomes (the shapes drawn, the random
\* horizontal position of the first piece).  isEnabled, lastMove, wasLoser
\* and the timer are not touched.
reset(w, s, settings) ==
    UNION { UNION {
      {[n2.w EXCEPT !.game[s] =
          [@ EXCEPT !.settings = settings,
                    !.sealed = EmptySealed,
                    !.movable = moveRandom(n1.obj, EmptySealed, rm),
                    !.nextMovable = n2.obj,
                    !.buffered = EmptyBuffered,
                    !.points = 0, !.level = 1, !.combo = 0,
                    !.cleared = 0, !.needToClear = 5, !.rows = 0],
          !.graced[s] = FALSE, !.streak[s] = 0]
       : n2 \in nextMovableSet(n1.w, s)}
      : rm \in RightMovings}
      : n1 \in nextMovableSet([w EXCEPT !.drawn[s] = <<>>], s)}

GameView == IF gameType = "SINGLEPLAYER" THEN "singlePlayer" ELSE "multiPlayer"
EndViews == {"scoreBoardWriter", "winBoard"}

\* onAppend() of the game view, loaded from the menu: the sessions are
\* reset with the settings of the selected mode and the countdown starts.
onAppend(w, mode, isP1) ==
    LET w0 == [w EXCEPT !.view = GameView, !.countdown = TRUE,
                        !.lock = NoLock, !.pushed = <<>>,
                        !.matches = @ + 1]
    IN  IF gameType = "SINGLEPLAYER"
        THEN {[w1 EXCEPT !.game[1].isPlayer1 = isP1]
                : w1 \in reset(w0, 1, buildSettings(mode))}
        ELSE UNION {reset(w1, 2, buildSettings(mode))
                      : w1 \in reset(w0, 1, buildSettings(mode))}

\* ------------------------------------------------- the explored inputs
\* The menu selections explored: the mode (getCurrentGameMode) and, for the
\* singlePlayer view, whether the controls are player 1's
\* (getCurrentGameControls); the multiPlayer view ignores the latter.
Selections ==
    IF gameType = "SINGLEPLAYER"
    THEN {<<"MEDIUM", FALSE>>, <<"HARD", TRUE>>}
    ELSE {<<"EASY", TRUE>>}

\* The keys the players press: everything in a singlePlayer match; in a
\* multiPlayer match player 2 only uses the commands in PeerCommands.
PeerCommands == {"FAST_DOWN"}
EmittedKeys ==
    IF gameType = "SINGLEPLAYER" THEN Keys
    ELSE ({"P1"} \X Commands) \cup ({"P2"} \X PeerCommands)

\* Piece locks explored in a run of the singlePlayer / multiPlayer view.
LockBound == IF gameType = "SINGLEPLAYER" THEN MaxLocks ELSE MaxPeerLocks

\* A match is being played: the game view is up and its countdown is over.
Playing == view = GameView /\ ~countdown

\* ---------------------------------------------------------------- actions
\* The player starts a match from the menu.
LoadGameView ==
    /\ view = "mainMenu"
    /\ matches < MaxMatches
    /\ \E sel \in Selections :
         \E w \in onAppend(onDestroy(World), sel[1], sel[2]) : Commit(w)

\* The countdown interval reaches 0: the sessions are enabled.
CountdownDone ==
    /\ countdown
    /\ Commit([World EXCEPT !.game = [s \in Games |-> enable(game[s])],
                            !.countdown = FALSE, !.lock = NoLock, !.pushed = <<>>])

\* A key interrupt is emitted.
KeyEvent ==
    /\ Playing => locks < LockBound
    /\ \E key \in EmittedKeys :
         \E w \in emit([World EXCEPT !.lock = NoLock, !.pushed = <<>>], key) : Commit(w)

\* The interval of session s fires.
GravityTick ==
    /\ Playing => locks < LockBound
    /\ \E s \in Games :
         /\ game[s].timers > 0
         /\ \E r \in moveDown([World EXCEPT !.lock = NoLock, !.pushed = <<>>], s) :
              Commit(r.w)

\* The end view returns to the menu.
LoadMainMenu ==
    /\ view \in EndViews
    /\ Commit([load(World, "mainMenu") EXCEPT !.lock = NoLock, !.pushed = <<>>])

Next ==
    \/ LoadGameView
    \/ CountdownDone
    \/ KeyEvent
    \/ GravityTick
    \/ LoadMainMenu

Spec == Init /\ [][Next]_vars

\* ------------------------------------------------------ a late-game start
\* A singlePlayer match (MEDIUM, player 2's controls) one row short of its
\* first level-up, as it stands after four single-row clears in a row
\* (150 + 225 + 300 + 375 points) and two locks that cleared nothing: an
\* RLBox upright against the left wall and an RZBox upright against the
\* right wall, leaving the second column from the right open down to the
\* row above the bottom one.  The next piece has just become active.
EndgameCells ==
    {<<0, CELL_COUNT_Y - 3>>, <<1, CELL_COUNT_Y - 3>>,
     <<0, CELL_COUNT_Y - 2>>, <<0, CELL_COUNT_Y - 1>>,
     <<CELL_COUNT_X - 1, CELL_COUNT_Y - 3>>, <<CELL_COUNT_X - 1, CELL_COUNT_Y - 2>>,
     <<CELL_COUNT_X - 2, CELL_COUNT_Y - 2>>, <<CELL_COUNT_X - 2, CELL_COUNT_Y - 1>>}

EndgameSession(kind, nextKind) ==
    [sealed |-> [y \in 1..CELL_COUNT_Y |-> [x \in 1..CELL_COUNT_X |->
                    IF <<x - 1, y - 1>> \in EndgameCells THEN 1 ELSE 0]],
     movable |-> NewGameObject(kind), nextMovable |-> NewGameObject(nextKind),
     buffered |-> [c \in EndgameCells |-> 1],
     points |-> 1050, cleared |-> 4, needToClear |-> 5, level |-> 1, combo |-> 0,
     settings |-> buildSettings("MEDIUM"), speed |-> 500,
     isPlayer1 |-> FALSE, isEnabled |-> TRUE, lastMove |-> FALSE,
     wasLoser |-> FALSE, speedLoop |-> "live", timers |-> 1, rows |-> 4]

EndgameInit ==
    /\ gameType = "SINGLEPLAYER"
    /\ \E kind \in DrawnKinds, nextKind \in DrawnKinds :
         game = [s \in {1} |-> EndgameSession(kind, nextKind)]
    /\ movables = [s \in {1} |-> <<>>]
    /\ view = "singlePlayer"
    /\ countdown = FALSE
    /\ scoreBoard = NewScoreBoard
    /\ lock = NoLock
    /\ graced = [s \in {1} |-> FALSE]
    /\ streak = [s \in {1} |-> 0]
    /\ locks = MaxLocks - 2
    /\ matches = 1
    /\ pushed = <<>>
    /\ drawn = [s \in {1} |-> <<>>]

\* A multiPlayer match (EASY) after one lock of each session: session 1
\* sealed its first piece, a LineBox, upright in the third column; then
\* session 2's LineBox filled and cleared its bottom row, which pushed one
\* garbage row (gap in the first column) under session 1's stack and so
\* lifted that stack into row 1.  Both sessions hold the second shape drawn.
EndgamePeerCells == {<<2, y>> : y \in (CELL_COUNT_Y - 5)..(CELL_COUNT_Y - 2)}

EndgamePeerSession(s, kind, nextKind) ==
    [sealed |-> IF s = 1
                THEN [y \in 1..CELL_COUNT_Y |->
                        IF y = CELL_COUNT_Y THEN GarbageRow(0)
                        ELSE [x \in 1..CELL_COUNT_X |->
                                IF <<x - 1, y - 1>> \in EndgamePeerCells THEN 1 ELSE 0]]
                ELSE EmptySealed,
     movable |-> NewGameObject(kind), nextMovable |-> NewGameObject(nextKind),
     buffered |-> IF s = 1
                  THEN BufferedMerge([c \in EndgamePeerCells |-> 1], GarbageCubes(0))
                  ELSE EmptyBuffered,
     points |-> IF s = 1 THEN 0 ELSE 100,
     cleared |-> IF s = 1 THEN 0 ELSE 1,
     needToClear |-> 5, level |-> 1,
     combo |-> IF s = 1 THEN 0 ELSE 1,
     settings |-> buildSettings("EASY"), speed |-> 500,
     isPlayer1 |-> (s = 1), isEnabled |-> TRUE, lastMove |-> FALSE,
     wasLoser |-> FALSE, speedLoop |-> "live", timers |-> 1, rows |-> IF s = 1 THEN 0 ELSE 1]

EndgamePeerInit ==
    /\ gameType = "MULTIPLAYER"
    /\ \E kind \in DrawnKinds, nextKind \in DrawnKinds :
         game = [s \in {1, 2} |-> EndgamePeerSession(s, kind, nextKind)]
    /\ movables = [s \in {1, 2} |-> <<>>]
    /\ view = "multiPlayer"
    /\ countdown = FALSE
    /\ scoreBoard = NewScoreBoard
    /\ lock = NoLock
    /\ graced = [s \in {1, 2} |-> FALSE]
    /\ streak = [s \in {1, 2} |-> IF s = 1 THEN 0 ELSE 1]
    /\ locks = MaxPeerLocks - 1
    /\ matches = 1
    /\ pushed = <<>>
    /\ \E kind \in DrawnKinds, nextKind \in DrawnKinds :
         /\ game[1].movable.kind = kind /\ game[1].nextMovable.kind = nextKind
         /\ drawn = [s \in {1, 2} |-> <<"LineBox", kind, nextKind>>]

\* A multiPlayer match (EASY) after three locks of session 1 and two of
\* session 2, none of which cleared a row: every piece so far was a LineBox
\* and was sealed upright, in every column of session 1's board but the
\* third and in the last two of session 2's.  Session 2 holds the third
\* LineBox; the fifth shape drawn waits in its generator's queue.
PushCells(s) ==
    {<<x, y>> : x \in (IF s = 1 THEN {0, 1, 3} ELSE {2, 3}),
                y \in (CELL_COUNT_Y - 4)..(CELL_COUNT_Y - 1)}

PushSession(s, kind, nextKind) ==
    [sealed |-> [y \in 1..CELL_COUNT_Y |-> [x \in 1..CELL_COUNT_X |->
                    IF <<x - 1, y - 1>> \in PushCells(s) THEN 1 ELSE 0]],
     movable |-> NewGameObject(IF s = 1 THEN kind ELSE "LineBox"),
     nextMovable |-> NewGameObject(IF s = 1 THEN nextKind ELSE kind),
     buffered |-> [c \in PushCells(s) |-> 1],
     points |-> 0, cleared |-> 0, needToClear |-> 5, level |-> 1, combo |-> 0,
     settings |-> buildSettings("EASY"), speed |-> 500,
     isPlayer1 |-> (s = 1), isEnabled |-> TRUE, lastMove |-> FALSE,
     wasLoser |-> FALSE, speedLoop |-> "live", timers |-> 1, rows |-> 0]

PushInit ==
    /\ gameType = "MULTIPLAYER"
    /\ \E kind \in DrawnKinds, nextKind \in DrawnKinds :
         /\ game = [s \in {1, 2} |-> PushSession(s, kind, nextKind)]
         /\ movables = [s \in {1, 2} |-> IF s = 1 THEN <<>> ELSE <<nextKind>>]
         /\ drawn = [s \in {1, 2} |->
                       IF s = 1 THEN <<"LineBox", "LineBox", "LineBox", kind, nextKind>>
                       ELSE <<"LineBox", "LineBox", "LineBox", kind>>]
    /\ view = "multiPlayer"
    /\ countdown = FALSE
    /\ scoreBoard = NewScoreBoard
    /\ lock = NoLock
    /\ graced = [s \in {1, 2} |-> FALSE]
    /\ streak = [s \in {1, 2} |-> 0]
    /\ locks = MaxPeerLocks - 1
    /\ matches = 1
    /\ pushed = <<>>

\* The runs of Spec, and those that start from the late-game positions.
EndgameSpec == (Init \/ EndgameInit \/ EndgamePeerInit \/ PushInit) /\ [][Next]_vars

\* ----------------------------------------------------- a high-level start
\* The highest level a run starts from.
MaxLevel == 50

\* A singlePlayer match (EASY, player 1's controls) in which every clear so
\* far was made by two Boxes side by side (2 rows, 300 * level points, combo
\* 0 because the first Box of each pair clears nothing).  LevelStart(l) is
\* the match when level l is entered: the rows carried into the cleared
\* counter and the points before the level multiplier.
RECURSIVE LevelStart(_)
LevelStart(l) ==
    IF l = 1 THEN [cleared |-> 0, base |-> 0]
    ELSE LET p     == LevelStart(l - 1)
             pairs == (5 * (l - 1) - p.cleared + 1) \div 2
         IN  [cleared |-> p.cleared + 2 * pairs - 5 * (l - 1),
              base    |-> p.base + 300 * (l - 1) * pairs]

LevelCells == {<<0, CELL_COUNT_Y - 2>>, <<1, CELL_COUNT_Y - 2>>,
               <<0, CELL_COUNT_Y - 1>>, <<1, CELL_COUNT_Y - 1>>}

\* The match at level l one pair short of the next level, the first Box of
\* that pair sealed in the bottom left corner and the second one active.
\* The timer runs with the interval set when level l was entered.
LevelSession(l, nextKind) ==
    LET p     == LevelStart(l)
        pairs == (5 * l - p.cleared + 1) \div 2
        g     == [sealed |-> [y \in 1..CELL_COUNT_Y |-> [x \in 1..CELL_COUNT_X |->
                                IF <<x - 1, y - 1>> \in LevelCells THEN 1 ELSE 0]],
                  movable |-> NewGameObject("Box"),
                  nextMovable |-> NewGameObject(nextKind),
                  buffered |-> [c \in LevelCells |-> 1],
                  points |-> TimesLevelMultiplier(p.base + 300 * l * (pairs - 1),
                                                  buildSettings("EASY")),
                  cleared |-> p.cleared + 2 * (pairs - 1),
                  needToClear |-> 5 * l, level |-> l, combo |-> 0,
                  settings |-> buildSettings("EASY"), speed |-> 0,
                  isPlayer1 |-> TRUE, isEnabled |-> TRUE, lastMove |-> FALSE,
                  wasLoser |-> FALSE, speedLoop |-> "undefined", timers |-> 0,
                  rows |-> 5 * ((l * (l - 1)) \div 2) + p.cleared + 2 * (pairs - 1)]
    IN  resetSpeedInterval(g)

LevelInit ==
    /\ gameType = "SINGLEPLAYER"
    /\ \E l \in 1..(MaxLevel - 1), nextKind \in DrawnKinds :
         game = [s \in {1} |-> LevelSession(l, nextKind)]
    /\ movables = [s \in {1} |-> <<>>]
    /\ view = "singlePlayer"
    /\ countdown = FALSE
    /\ scoreBoard = NewScoreBoard
    /\ lock = NoLock
    /\ graced = [s \in {1} |-> FALSE]
    /\ streak = [s \in {1} |-> 0]
    /\ locks = MaxLocks - 2
    /\ matches = 1
    /\ pushed = <<>>
    /\ drawn = [s \in {1} |-> <<>>]

\* The runs that start from the high-level positions.
LevelSpec == LevelInit /\ [][Next]_vars

\* ------------------------------------------------- a start with any shape
\* A singlePlayer match (HARD, player 1's controls) after its first lock: an
\* RZBox, rotated once, moved to the left wall and dropped, which leaves the
\* cell under its upper right cube empty.  The second piece, of any of the
\* seven shapes, has just become active, as has the third as the next piece.
ShapeCells ==
    {<<0, CELL_COUNT_Y - 2>>, <<0, CELL_COUNT_Y - 1>>,
     <<1, CELL_COUNT_Y - 3>>, <<1, CELL_COUNT_Y - 2>>}

ShapeSession(kind, nextKind) ==
    [sealed |-> [y \in 1..CELL_COUNT_Y |-> [x \in 1..CELL_COUNT_X |->
                    IF <<x - 1, y - 1>> \in ShapeCells THEN 1 ELSE 0]],
     movable |-> NewGameObject(kind), nextMovable |-> NewGameObject(nextKind),
     buffered |-> [c \in ShapeCells |-> 1],
     points |-> 0, cleared |-> 0, needToClear |-> 5, level |-> 1, combo |-> 0,
     settings |-> buildSettings("HARD"), speed |-> 500,
     isPlayer1 |-> TRUE, isEnabled |-> TRUE, lastMove |-> FALSE,
     wasLoser |-> FALSE, speedLoop |-> "live", timers |-> 1, rows |-> 0]

ShapeInit ==
    /\ gameType = "SINGLEPLAYER"
    /\ \E i \in 1..Len(GAME_OBJECTS), j \in 1..Len(GAME_OBJECTS) :
         game = [s \in {1} |-> ShapeSession(GAME_OBJECTS[i], GAME_OBJECTS[j])]
    /\ movables = [s \in {1} |-> <<>>]
    /\ view = "singlePlayer"
    /\ countdown = FALSE
    /\ scoreBoard = NewScoreBoard
    /\ lock = NoLock
    /\ graced = [s \in {1} |-> FALSE]
    /\ streak = [s \in {1} |-> 0]
    /\ locks = MaxLocks - 1
    /\ matches = 1
    /\ pushed = <<>>
    /\ drawn = [s \in {1} |-> <<>>]

\* The runs that start with a piece of any shape.
ShapeSpec == ShapeInit /\ [][Next]_vars

\* ------------------------------------------ a start on an empty board
\* A singlePlayer match (HARD, player 1's controls) when its countdown has
\* run out: the board is empty, the first piece, of any of the seven
\* shapes, is active where reset() put it, and lastMove still has the
\* value the constructor gave it.
OpenSession(kind, nextKind, rm) ==
    [sealed |-> EmptySealed,
     movable |-> moveRandom(NewGameObject(kind), EmptySealed, rm),
     nextMovable |-> NewGameObject(nextKind),
     buffered |-> EmptyBuffered,
     points |-> 0, cleared |-> 0, needToClear |-> 5, level |-> 1, combo |-> 0,
     settings |-> buildSettings("HARD"), speed |-> 500,
     isPlayer1 |-> TRUE, isEnabled |-> TRUE, lastMove |-> TRUE,
     wasLoser |-> FALSE, speedLoop |-> "live", timers |-> 1, rows |-> 0]

OpenInit ==
    /\ gameType = "SINGLEPLAYER"
    /\ \E i \in 1..Len(GAME_OBJECTS), j \in 1..Len(GAME_OBJECTS), rm \in RightMovings :
         game = [s \in {1} |-> OpenSession(GAME_OBJECTS[i], GAME_OBJECTS[j], rm)]
    /\ movables = [s \in {1} |-> <<>>]
    /\ view = "singlePlayer"
    /\ countdown = FALSE
    /\ scoreBoard = NewScoreBoard
    /\ lock = NoLock
    /\ graced = [s \in {1} |-> FALSE]
    /\ streak = [s \in {1} |-> 0]
    /\ locks = MaxLocks - 1
    /\ matches = 1
    /\ pushed = <<>>
    /\ drawn = [s \in {1} |-> <<>>]

\* The runs that start with a piece of any shape, on the empty board or
\* above the piece placed first.
OpenSpec == (OpenInit \/ ShapeInit) /\ [][Next]_vars

\* ------------------------------------------- a start before a clear pass
\* The rows a stack is built from: the third column, into which a LineBox
\* rotates at the top of the grid, is empty in each; row kind 1 lacks only
\* that cell, row kinds 2 and 3 lack others as well.
StackRow(k) ==
    [x \in 1..CELL_COUNT_X |->
        CASE k = 1 -> IF x = 3 THEN 0 ELSE 1
          [] k = 2 -> IF x = 1 THEN 1 ELSE 0
          [] k = 3 -> IF x = 2 \/ x = CELL_COUNT_X THEN 1 ELSE 0]

\* The stacks of the four bottom rows, one row kind each (top to bottom).
Stacks == [1..4 -> 1..3]

\* A singlePlayer match (HARD, player 1's controls) with such a stack and a
\* LineBox that has just become active: rotated and dropped it fills the
\* third column of the four rows, of which any, adjacent or not, are then
\* full.
StackSession(stack, nextKind) ==
    [sealed |-> [y \in 1..CELL_COUNT_Y |->
                    IF y > CELL_COUNT_Y - 4 THEN StackRow(stack[y - (CELL_COUNT_Y - 4)])
                    ELSE [x \in 1..CELL_COUNT_X |-> 0]],
     movable |-> NewGameObject("LineBox"), nextMovable |-> NewGameObject(nextKind),
     buffered |-> [c \in {<<x - 1, y - 1>> : x \in 1..CELL_COUNT_X,
                                             y \in (CELL_COUNT_Y - 3)..CELL_COUNT_Y}
                         \ {c \in Cols \X Rows :
                              StackRow(stack[c[2] + 1 - (CELL_COUNT_Y - 4)])[c[1] + 1] = 0}
                   |-> 1],
     points |-> 0, cleared |-> 0, needToClear |-> 5, level |-> 1, combo |-> 0,
     settings |-> buildSettings("HARD"), speed |-> 500,
     isPlayer1 |-> TRUE, isEnabled |-> TRUE, lastMove |-> FALSE,
     wasLoser |-> FALSE, speedLoop |-> "live", timers |-> 1, rows |-> 0]

StackInit ==
    /\ gameType = "SINGLEPLAYER"
    /\ \E stack \in Stacks, nextKind \in DrawnKinds :
         game = [s \in {1} |-> StackSession(stack, nextKind)]
    /\ movables = [s \in {1} |-> <<>>]
    /\ view = "singlePlayer"
    /\ countdown = FALSE
    /\ scoreBoard = NewScoreBoard
    /\ lock = NoLock
    /\ graced = [s \in {1} |-> FALSE]
    /\ streak = [s \in {1} |-> 0]
    /\ locks = MaxLocks - 2
    /\ matches = 1
    /\ pushed = <<>>
    /\ drawn = [s \in {1} |-> <<>>]

\* The runs that start with a stack about to be completed.
StackSpec == StackInit /\ [][Next]_vars

\* ---------------------------------------------------- the generators alone
\* The nextMovable() calls made on one generator in a run of GeneratorSpec.
MaxDraws == 4

\* The two sessions of the multiPlayer view as onBuild leaves them: the
\* generators are bound to each other and nothing has been drawn.
GeneratorInit == Init /\ gameType = "MULTIPLAYER"

\* nextMovable() is called on the generator of session s.
Draw ==
    \E s \in Games :
        /\ Len(drawn[s]) < MaxDraws
        /\ \E r \in nextMovableSet(World, s) : Commit(r.w)

\* Every interleaving of nextMovable() calls on two bound generators.
GeneratorSpec == GeneratorInit /\ [][Draw]_vars

\* --------------------------------------------------------- the score list
\* The entries ScoreBoard.save() keeps.
MaxScores == 10
\* The save() calls explored, and the names and scores they are made with.
MaxSaves == 12
Names == {"AAAAA"}
ScoreValues == {0, 100, 300}

\* The number of save() calls made so far with the value v, and in all.
SavedCount(sb, v) == IF v \in DOMAIN sb.saved THEN sb.saved[v] ELSE 0
RECURSIVE SumSaved(_, _)
SumSaved(sb, S) ==
    IF S = {} THEN 0
    ELSE LET v == CHOOSE v \in S : TRUE
         IN  sb.saved[v] + SumSaved(sb, S \ {v})
Saves(sb) == SumSaved(sb, DOMAIN sb.saved)

\* The number of entries of a list with the value v (with the name n too).
CountValue(scores, v) == Cardinality({i \in 1..Len(scores) : scores[i].value = v})
CountEntry(scores, n, v) ==
    Cardinality({i \in 1..Len(scores) : scores[i].name = n /\ scores[i].value = v})

\* The entries of a list with the value v, in their order, and every
\* order of the entries of a list.
Group(scores, v) == SelectSeq(scores, LAMBDA e : e.value = v)
Arrangements(g) ==
    {t \in [1..Len(g) -> {g[i] : i \in 1..Len(g)}] :
        \A e \in {g[i] : i \in 1..Len(g)} :
            CountEntry(t, e.name, e.value) = CountEntry(g, e.name, e.value)}

\* scores.sort((a, b) => a.value < b.value ? 1 : -1): the comparator never
\* answers 0, so the order of entries with equal values is left to the
\* sort: the values by non-increasing value, each group in any order.
RECURSIVE SortsFrom(_, _)
SortsFrom(scores, S) ==
    IF S = {} THEN {<<>>}
    ELSE LET v == CHOOSE v \in S : \A u \in S : u <= v
         IN  {a \o r : a \in Arrangements(Group(scores, v)),
                       r \in SortsFrom(scores, S \ {v})}
Sorts(scores) == SortsFrom(scores, {scores[i].value : i \in 1..Len(scores)})

\* Mutant of save: the entry dropped from a list that is too long is the
\* first one.
saveShifts(sb, name) ==
    {[sb EXCEPT !.scores = IF Len(t) > MaxScores THEN SubSeq(t, 2, Len(t)) ELSE t,
                !.saved = [v \in DOMAIN @ \cup {sb.unknown} |->
                             SavedCount(sb, v) + (IF v = sb.unknown THEN 1 ELSE 0)]]
       : t \in Sorts(Append(sb.scores, [name |-> name, value |-> sb.unknown]))}

\* save(name): push, sort, pop when there are more than 10 entries.  (The
\* write to the scores file is left out: nothing reads it back in a run.)
save(sb, name) ==
    {[sb EXCEPT !.scores = IF Len(t) > MaxScores THEN SubSeq(t, 1, Len(t) - 1) ELSE t,
                !.saved = [v \in DOMAIN @ \cup {sb.unknown} |->
                             SavedCount(sb, v) + (IF v = sb.unknown THEN 1 ELSE 0)]]
       : t \in Sorts(Append(sb.scores, [name |-> name, value |-> sb.unknown]))}

\* A singlePlayer program with no scores file, in the menu.
ScoreInit == Init /\ gameType = "SINGLEPLAYER"

\* A singlePlayer match is played to its end with n points: the lock that
\* ends it calls setUnknown(n) and loads the name entry view.
MatchOver ==
    /\ view = "mainMenu"
    /\ Saves(scoreBoard) < MaxSaves
    /\ \E n \in ScoreValues :
         /\ scoreBoard' = [scoreBoard EXCEPT !.unknown = n]
         /\ view' = "scoreBoardWriter"
    /\ UNCHANGED <<gameType, game, movables, countdown, lock, graced, streak,
                   locks, matches, pushed, drawn>>

\* The menu's setScoreBoardText(): getScores() hands out the list itself,
\* and the menu sorts it in place once more before it draws the rows.
setScoreBoardText(sb) == {[sb EXCEPT !.scores = t] : t \in Sorts(sb.scores)}

\* The Save button of the name entry view: save(name), then the menu.
SaveName ==
    /\ view = "scoreBoardWriter"
    /\ \E name \in Names :
         \E sb \in save(scoreBoard, name) :
             \E shown \in setScoreBoardText(sb) :
                 Commit([load([World EXCEPT !.scoreBoard = shown], "mainMenu")
                           EXCEPT !.lock = NoLock, !.pushed = <<>>])

\* Matches played out one after the other, each score saved or not.
ScoreNext == MatchOver \/ SaveName \/ LoadMainMenu
ScoreSpec == ScoreInit /\ [][ScoreNext]_vars

\* ------------------------------------------------- the multiPlayer view
\* A multiPlayer match (EASY) in which player 1 has sealed six pieces and
\* player 2 none: four LineBoxes that each cleared the bottom row at once
\* (100 + 150 + 200 + 250 points), then the RLBox and the RZBox of the
\* late-game position above, which cleared nothing.  Each of the four clears
\* pushed a garbage row (gap in the first column) onto session 2, whose
\* first LineBox is still where it became active.  Session 1 is one row
\* short of its first level-up.
CarryGarbage == {<<x, y>> : x \in Cols \ {0}, y \in (CELL_COUNT_Y - 4)..(CELL_COUNT_Y - 1)}

CarrySession(s, kind, nextKind) ==
    [sealed |-> [y \in 1..CELL_COUNT_Y |-> [x \in 1..CELL_COUNT_X |->
                    IF <<x - 1, y - 1>> \in (IF s = 1 THEN EndgameCells ELSE CarryGarbage)
                    THEN 1 ELSE 0]],
     movable |-> NewGameObject(IF s = 1 THEN kind ELSE "LineBox"),
     nextMovable |-> NewGameObject(IF s = 1 THEN nextKind ELSE "LineBox"),
     buffered |-> [c \in (IF s = 1 THEN EndgameCells ELSE CarryGarbage) |-> 1],
     points |-> IF s = 1 THEN 700 ELSE 0,
     cleared |-> IF s = 1 THEN 4 ELSE 0,
     needToClear |-> 5, level |-> 1, combo |-> 0,
     settings |-> buildSettings("EASY"), speed |-> 500,
     isPlayer1 |-> (s = 1), isEnabled |-> TRUE, lastMove |-> (s = 2),
     wasLoser |-> FALSE, speedLoop |-> "live", timers |-> 1, rows |-> IF s = 1 THEN 4 ELSE 0]

CarryInit ==
    /\ gameType = "MULTIPLAYER"
    /\ \E kind \in DrawnKinds, nextKind \in DrawnKinds :
         /\ game = [s \in {1, 2} |-> CarrySession(s, kind, nextKind)]
         /\ movables = [s \in {1, 2} |->
                          IF s = 1 THEN <<>>
                          ELSE <<"LineBox", "LineBox", "RLBox", "RZBox", kind, nextKind>>]
         /\ drawn = [s \in {1, 2} |->
                       IF s = 1 THEN <<"LineBox", "LineBox", "LineBox", "LineBox",
                                       "RLBox", "RZBox", kind, nextKind>>
                       ELSE <<"LineBox", "LineBox">>]
    /\ view = "multiPlayer"
    /\ countdown = FALSE
    /\ scoreBoard = NewScoreBoard
    /\ lock = NoLock
    /\ graced = [s \in {1, 2} |-> FALSE]
    /\ streak = [s \in {1, 2} |-> 0]
    /\ locks = MaxPeerLocks - 1
    /\ matches = 1
    /\ pushed = <<>>

\* The runs of the multiPlayer view, from construction and from the
\* positions after one lock of each session and after six of player 1.
PeerSpec ==
    ((Init /\ gameType = "MULTIPLAYER") \/ EndgamePeerInit \/ CarryInit)
        /\ [][Next]_vars

\* ------------------------------------------------- a match and a rematch
\* Piece locks explored in a run that plays a match to its end and then
\* another one: one more than the shortest such run needs from the position
\* after one lock of each session (one lock ends that match, two more end
\* the next).
RematchLocks == MaxPeerLocks + 2

\* The keys pressed in such a run: both players rotate and hard-drop only.
RematchKeys == {"P1", "P2"} \X {"ROTATE", "FAST_DOWN"}

\* A rotate or hard-drop key interrupt is emitted.
DropKey ==
    /\ Playing => locks < RematchLocks
    /\ \E key \in RematchKeys :
         \E w \in emit([World EXCEPT !.lock = NoLock, !.pushed = <<>>], key) : Commit(w)

RematchNext ==
    \/ LoadGameView
    \/ CountdownDone
    \/ DropKey
    \/ LoadMainMenu

\* The runs of the multiPlayer view that go on into a second match.
RematchSpec == EndgamePeerInit /\ [][RematchNext]_vars

\* ================================================================ claims
\* The lock of the last handler, if it sealed a piece: lock.s is the
\* session, lock.n the rows its clear pass removed, and lock.points,
\* lock.level, lock.combo, lock.cleared, lock.needToClear the session's
\* values when moveDown was entered.
Locked == lock.s # 0

\* The base score B(n) of the scoring table.
B(n) == IF n = 1 THEN 100 ELSE IF n = 2 THEN 300 ELSE IF n = 3 THEN 500 ELSE 1200

\* C1: a lock that clears n >= 1 rows adds exactly
\* B(n) * level * levelMultiplier + 50 * combo * level * levelMultiplier to
\* points, with level and combo as they were before the lock; a lock that
\* clears no row leaves points unchanged.  (Both sides are doubled: the
\* multiplier is a multiple of 1/2.)
C1_LockScore ==
    Locked =>
        LET g == game[lock.s]
        IN  IF lock.n >= 1
            THEN 2 * (g.points - lock.points)
                   = B(lock.n) * lock.level * lock.multiplierX2
                     + 50 * lock.combo * lock.level * lock.multiplierX2
            ELSE g.points = lock.points

\* C1 witness: a lock cleared rows while the combo was already running.
C1_Witness == Locked /\ lock.n >= 1 /\ lock.combo >= 1 /\ lock.multiplierX2 = 3

\* C2: a lock clearing n rows (0 <= n <= 4) with cleared + n >= needToClear
\* leaves cleared + n - needToClear, level + 1 and needToClear = 5 * the new
\* level; any other lock leaves cleared + n and level, needToClear unchanged.
C2_LevelUp ==
    Locked =>
        LET g == game[lock.s]
        IN  /\ lock.n \in 0..4
            /\ IF lock.cleared + lock.n >= lock.needToClear
               THEN /\ g.cleared = lock.cleared + lock.n - lock.needToClear
                    /\ g.level = lock.level + 1
                    /\ g.needToClear = 5 * g.level
               ELSE /\ g.cleared = lock.cleared + lock.n
                    /\ g.level = lock.level
                    /\ g.needToClear = lock.needToClear

\* C2 witness: a lock levelled up with a remainder to carry.
C2_Witness == Locked /\ lock.cleared + lock.n > lock.needToClear

\* C3: once reset, every session has 0 <= cleared < needToClear and
\* needToClear = 5 * level.
C3_ClearedBelowNeed ==
    matches >= 1 =>
        \A s \in Games :
            /\ 0 <= game[s].cleared
            /\ game[s].cleared < game[s].needToClear
            /\ game[s].needToClear = 5 * game[s].level

\* C3 witness: a session past its first level-up holding a remainder.
C3_Witness == \E s \in Games : game[s].level = 2 /\ game[s].cleared >= 1

\* C4: at every point of a match a session's combo equals the number of its
\* latest consecutive locks that each cleared a row (streak), so nothing but
\* the session's own locks changes it.
C4_ComboIsStreak ==
    matches >= 1 => \A s \in Games : game[s].combo = streak[s]

\* C5: no piece is sealed by the first moveDown call that finds it unable to
\* descend: when a lock seals a piece, an earlier moveDown call had already
\* found that piece unable to descend and left it unsealed.
C5_GraceBeforeSeal == Locked => lock.graced

\* A cell of rows 0 and 1 of the occupancy grid is occupied.
TopRowsOccupied(sealed) ==
    \E x \in Cols, y \in {0, 1} : SealedAt(sealed, x, y) = 1

EndView == IF gameType = "SINGLEPLAYER" THEN "scoreBoardWriter" ELSE "winBoard"

\* C6: after a lock the match ends within the same moveDown call exactly
\* when row 0 or row 1 of the grid holds an occupied cell; ending clears the
\* session's gravity timer and loads the end view (name entry in a
\* singlePlayer match, the win board in a multiPlayer match).
C6_GameOverIffTopOccupied ==
    Locked =>
        LET g == game[lock.s]
        IN  IF TopRowsOccupied(g.sealed)
            THEN view = EndView /\ g.speedLoop # "live"
            ELSE view = GameView

\* C6 witness: a lock ended a match although the sealed piece lies below
\* row 1: the occupied cell of row 1 was lifted there by a garbage row.
C6_Witness == Locked /\ view = EndView /\ ~lock.top

\* C7 as stated: a lock that seals a piece with a cell in row 0 or row 1
\* leaves the session terminal, whatever rows the lock clears.
C7_TopSealIsTerminal == (Locked /\ lock.top) => view = EndView

\* C7 amended: a lock that seals a piece with a cell in row 0 or row 1 and
\* clears no row leaves the session terminal, whatever the score and level.
C7_TopSealNoClearIsTerminal ==
    (Locked /\ lock.top /\ lock.n = 0) => view = EndView

\* C7 witness: such a lock, by a session that had scored.
C7_Witness ==
    Locked /\ lock.top /\ lock.n = 0 /\ view = EndView /\ lock.points > 0

\* No match is being played: the game view has been left (game over), or a
\* new match has been reset and its sessions are not enabled yet.
Dormant == view # GameView \/ countdown

\* The board, placed cubes, active piece, score, level and combo of a session.
Core(g) == <<g.sealed, g.buffered, g.movable, g.points, g.level, g.combo>>

\* C8: from game over until the sessions are reset and enabled again, no
\* step other than the reset of the next match (no key event, no gravity
\* tick) changes the board, placed cubes, active piece, score, level or
\* combo of any session.
C8_TerminalIsFrozen ==
    [][(Dormant /\ matches' = matches) =>
          \A s \in Games : Core(game'[s]) = Core(game[s])]_vars

\* C8 witness: a key event was emitted after a multiPlayer match had ended.
C8_Witness == view = "winBoard" /\ ~Locked

C10_TimerOnlyWhenEnabled ==
    \A s \in Games : game[s].speedLoop = "live" => game[s].isEnabled

\* C10 witness: the lock that ended a match also levelled the session up,
\* which restarted the timer; the timer is cleared and the session disabled.
C10_Witness ==
    /\ Locked /\ view = EndView
    /\ lock.cleared + lock.n >= lock.needToClear
    /\ game[lock.s].level = lock.level + 1
    /\ game[lock.s].speedLoop = "cleared" /\ ~game[lock.s].isEnabled

\* The interval the gravity timer is specified to have at a level, for
\* 10 * speedMultiplier: max(20, 500 - (level - 1) * speedMultiplier * 10).
SpecifiedInterval(level, speedMultiplierX10) ==
    IF 500 - (level - 1) * speedMultiplierX10 >= 20
    THEN 500 - (level - 1) * speedMultiplierX10
    ELSE 20

\* C11: whenever the gravity timer of a session runs, its interval is
\* max(20, 500 - (level - 1) * speedMultiplier * 10) for the session's level
\* and speedMultiplier (the timer is restarted whenever the level changes
\* during a match), and so never below 20.
C11_IntervalIsMax ==
    \A s \in Games :
        game[s].speedLoop = "live" =>
            /\ game[s].speed = SpecifiedInterval(game[s].level,
                                                 game[s].settings.speedMultiplierX10)
            /\ game[s].speed >= 20

\* The smaller of two numbers.
Min(a, b) == IF a <= b THEN a ELSE b

\* C12: for two generators bound before any draw, and every interleaving of
\* nextMovable() calls, the k-th shape kind returned by one equals the k-th
\* returned by the other, for every k both have reached.
C12_BoundGeneratorsAgree ==
    gameType = "MULTIPLAYER" =>
        \A k \in 1..Min(Len(drawn[1]), Len(drawn[2])) : drawn[1][k] = drawn[2][k]

\* Both generators have returned several shapes, of more than one kind, and
\* one of them is ahead of the other.
C12_Witness ==
    /\ gameType = "MULTIPLAYER"
    /\ Len(drawn[1]) >= 3 /\ Len(drawn[2]) = 2
    /\ drawn[2][1] # drawn[2][2]
    /\ movables[2] # <<>>

\* The shape kinds that became active on the board of session s since its
\* last reset: all it drew but the last one, which is the preview.
Activated(s) == SubSeq(drawn[s], 1, Len(drawn[s]) - 1)

\* C13: in every multiPlayer match, the first and every later one, the k-th
\* piece to become active on player 1's board has the same shape kind as
\* the k-th piece to become active on player 2's board, for every k both
\* boards reach in that match.
C13_BoardsGetSameSequence ==
    (gameType = "MULTIPLAYER" /\ view = GameView) =>
        \A k \in 1..Min(Len(Activated(1)), Len(Activated(2))) :
            Activated(1)[k] = Activated(2)[k]

\* What pushLine(n) is specified to do to a session: the rows move up by n
\* (the top n are dropped), each of the bottom n rows has one gap and is
\* occupied elsewhere, and the placed cubes, moved up with the rows, are
\* joined by exactly one cube on every occupied cell of the bottom n rows.
PushedOnto(before, after, n) ==
    /\ \A r \in Rows : r < CELL_COUNT_Y - n => after.sealed[r + 1] = before.sealed[r + n + 1]
    /\ \A r \in Rows : r >= CELL_COUNT_Y - n =>
         /\ Cardinality({x \in Cols : SealedAt(after.sealed, x, r) = 1}) = CELL_COUNT_X - 1
         /\ Cardinality({x \in Cols : SealedAt(after.sealed, x, r) = 0}) = 1
    /\ \A c \in (DOMAIN after.buffered)
                \cup {<<d[1], d[2] - n>> : d \in DOMAIN before.buffered}
                \cup (Cols \X Rows) :
         BufferedCount(after.buffered, c) =
             BufferedCount(before.buffered, <<c[1], c[2] + n>>)
             + (IF c[2] >= CELL_COUNT_Y - n /\ SealedAt(after.sealed, c[1], c[2]) = 1
                THEN 1 ELSE 0)

\* C14: a handler that calls pushLine(n) on a session leaves every row
\* r < H - n of its grid as row r + n was, the bottom n rows with exactly
\* width - 1 occupied cells and one gap each, and the placed cubes increased
\* by exactly one garbage cube on each of those occupied cells.
C14_PushLineShifts ==
    [][pushed' # <<>> =>
         PushedOnto(game[pushed'[1][1]], game'[pushed'[1][1]], pushed'[1][2])]_vars

\* pushLine(4) has been called on a session whose stack it lifted past the
\* top of the grid.
C14_Witness ==
    /\ pushed # <<>> /\ pushed[1][2] = 4
    /\ \E c \in DOMAIN game[pushed[1][1]].buffered : c[2] < 0

\* C15: in a multiPlayer match a lock that clears n >= 1 rows calls
\* pushLine(min(n, 4)) on the peer exactly once, inside the lock; a lock
\* that clears no row, a lock of a singlePlayer session and a handler that
\* locks nothing call pushLine zero times.
C15_PushOncePerClearingLock ==
    pushed = IF Locked /\ lock.n >= 1 /\ gameType = "MULTIPLAYER"
             THEN << <<3 - lock.s, Min(lock.n, 4)>> >>
             ELSE <<>>

\* A multiPlayer lock cleared four rows and pushed four onto the peer.
C15_Witness ==
    /\ gameType = "MULTIPLAYER" /\ Locked /\ lock.n = 4
    /\ pushed = << <<3 - lock.s, 4>> >>

\* C16: in every state the positions held by the placed cubes are exactly
\* the positions whose flag in sealed is 1, every placed cube lies inside
\* the grid, and no position is held by two cubes.
C16_BufferedMatchesSealed ==
    \A s \in Games :
        game[s].sealed # <<>> =>
            /\ DOMAIN game[s].buffered =
                 {c \in Cols \X Rows : SealedAt(game[s].sealed, c[1], c[2]) = 1}
            /\ \A c \in DOMAIN game[s].buffered : game[s].buffered[c] = 1

\* A cell of the grid that no placed cube occupies.
Free(sealed, c) == c \in Cols \X Rows /\ SealedAt(sealed, c[1], c[2]) = 0

\* C17: for every shape whose rotate() moves cubes (all but Box, whose
\* rotate() does nothing), every rotation state and every board, canRotate
\* returns true if and only if each of the 4 cells rotate() would produce
\* lies inside the grid and is unoccupied.
C17_CanRotateIffFree ==
    \A s \in Games :
        (game[s].sealed # <<>> /\ game[s].movable.kind # "Box") =>
            (canRotate(game[s].movable, game[s].sealed)
               <=> \A c \in ShapeSet(rotate(game[s].movable)) : Free(game[s].sealed, c))

\* C18: canGoLeft (canGoRight) returns false whenever, in some row the
\* piece occupies, the cell left of its leftmost cube (right of its
\* rightmost cube) is occupied or lies outside the grid.
C18_CanGoSidewaysIsSafe ==
    \A s \in Games :
        game[s].sealed # <<>> =>
            LET m == game[s].movable
            IN  /\ (\E c \in ShapeSet(m) : ~Free(game[s].sealed, <<c[1] - 1, c[2]>>)
                                           /\ <<c[1] - 1, c[2]>> \notin ShapeSet(m))
                      => ~canGoLeft(m, game[s].sealed)
                /\ (\E c \in ShapeSet(m) : ~Free(game[s].sealed, <<c[1] + 1, c[2]>>)
                                           /\ <<c[1] + 1, c[2]>> \notin ShapeSet(m))
                      => ~canGoRight(m, game[s].sealed)

\* A set of cells moved so that its leftmost column and its top row are 0,
\* and the same after a quarter turn.
Normalised(S) ==
    LET x0 == CHOOSE x \in {c[1] : c \in S} : \A c \in S : x <= c[1]
        y0 == CHOOSE y \in {c[2] : c \in S} : \A c \in S : y <= c[2]
    IN  {<<c[1] - x0, c[2] - y0>> : c \in S}

Turned(S) == Normalised({<<-c[2], c[1]>> : c \in S})

\* The tetromino of a shape: the cells its constructor places, in any of
\* the four orientations.
Tetromino(kind) ==
    LET S == Normalised(ShapeSet(NewGameObject(kind)))
    IN  {S, Turned(S), Turned(Turned(S)), Turned(Turned(Turned(S)))}

IsPiece(obj) ==
    /\ Len(obj.shapes) = 4
    /\ Cardinality(ShapeSet(obj)) = 4
    /\ \A c \in ShapeSet(obj) : c[1] \in Int /\ c[2] \in Int
    /\ Normalised(ShapeSet(obj)) \in Tetromino(obj.kind)

\* C19: every piece, active or next, of every shape, in every rotation
\* state and after any moves and rotations, consists of exactly 4 pairwise
\* distinct cells with integer coordinates that form its shape's tetromino.
C19_PieceIsItsTetromino ==
    \A s \in Games :
        game[s].sealed # <<>> => IsPiece(game[s].movable) /\ IsPiece(game[s].nextMovable)

\* A piece that is not symmetric has been rotated three times, moved
\* sideways and moved down.
C19_Witness ==
    \E s \in Games :
        /\ Playing
        /\ game[s].movable.kind = "RLBox" /\ game[s].movable.rotationIndex = "RIGHT"
        /\ getLeft(game[s].movable) > 0 /\ getBottom(game[s].movable) = CELL_COUNT_Y - 1

\* The rows of the board that were full when the piece had just been
\* sealed, before the clear pass of that lock ran.
FullRowsAtSeal == {i \in 0..CELL_COUNT_Y - 1 : reduce(lock.sealed[i + 1], 1) = CELL_COUNT_X}

\* The placed cubes after a clear pass that removed row i and moved the
\* cubes above it by dy rows: every position holds the cubes that were
\* moved to it, and no others.
ClearedOneRow(before, after, i, dy) ==
    LET To(c) == IF c[2] < i THEN <<c[1], c[2] + dy>> ELSE c
        Kept  == {c \in DOMAIN before : c[2] # i}
    IN  /\ DOMAIN after = {To(c) : c \in Kept}
        /\ \A e \in DOMAIN after :
               after[e] = SumCounts(before, {c \in Kept : To(c) = e})

\* C20 (as stated): with exactly one full row i, the pass clears 1 row,
\* removes the placed cubes of row i, decreases by exactly 1 the row index
\* of every placed cube above it and leaves the cubes below unchanged.
C20_CellsAboveDecrease ==
    Locked /\ Cardinality(FullRowsAtSeal) = 1 =>
        LET i == CHOOSE i \in FullRowsAtSeal : TRUE
        IN  /\ lock.n = 1
            /\ ClearedOneRow(lock.buffered, game[lock.s].buffered, i, -1)

\* C20 (amended): with exactly one full row i, the pass clears 1 row,
\* removes the placed cubes of row i, increases by exactly 1 the row index
\* of every placed cube above it (row 0 is the top row, so the cube moves
\* one row down) and leaves the cubes below unchanged; the flags of the
\* board move the same way.
C20_CellsAboveMoveDown ==
    Locked /\ Cardinality(FullRowsAtSeal) = 1 =>
        LET i == CHOOSE i \in FullRowsAtSeal : TRUE
        IN  /\ lock.n = 1
            /\ ClearedOneRow(lock.buffered, game[lock.s].buffered, i, 1)
            /\ \A y \in 0..CELL_COUNT_Y - 1 :
                   game[lock.s].sealed[y + 1] =
                       IF y = 0 THEN [x \in 1..CELL_COUNT_X |-> 0]
                       ELSE IF y <= i THEN lock.sealed[y]
                       ELSE lock.sealed[y + 1]

\* A lock that filled exactly one row, with placed cubes above it and below
\* it.
C20_Witness ==
    /\ Locked /\ Cardinality(FullRowsAtSeal) = 1
    /\ LET i == CHOOSE i \in FullRowsAtSeal : TRUE
       IN  /\ \E c \in DOMAIN lock.buffered : c[2] < i
           /\ \E c \in DOMAIN lock.buffered : c[2] > i

\* A row of the grid that is not full.
NotFull(row) == reduce(row, 1) # CELL_COUNT_X

\* C21: for a board with k full rows (0 <= k <= 4, at any positions), the
\* clear pass leaves k empty rows followed by the rows that were not full,
\* in their order; the grid keeps its H rows of width cells, no full row
\* remains and k rows are counted as cleared.
C21_ClearPassCompacts ==
    Locked =>
        LET k     == Cardinality(FullRowsAtSeal)
            after == game[lock.s].sealed
        IN  /\ k \in 0..4
            /\ lock.n = k
            /\ after = [y \in 1..k |-> [x \in 1..CELL_COUNT_X |-> 0]]
                         \o SelectSeq(lock.sealed, NotFull)
            /\ Len(after) = CELL_COUNT_Y
            /\ \A y \in 1..CELL_COUNT_Y : Len(after[y]) = CELL_COUNT_X /\ NotFull(after[y])

\* A pass met two full rows with a row that is not full between them, and
\* rows that are not full above and below.
C21_Witness ==
    /\ Locked
    /\ \E i \in FullRowsAtSeal :
         /\ i + 1 \notin FullRowsAtSeal /\ i + 2 \in FullRowsAtSeal
         /\ reduce(lock.sealed[i + 2], 1) # 0
         /\ i - 1 \notin FullRowsAtSeal /\ i >= 1 /\ reduce(lock.sealed[i], 1) # 0

\* A piece as the generator returns it, moved right from the origin by some
\* number of columns on an empty board, or not at all.
FreshPiece(obj, maxRight) ==
    \E i \in 1..Len(GAME_OBJECTS), r \in 0..maxRight :
        obj = [NewGameObject(GAME_OBJECTS[i]) EXCEPT
                 !.shapes = [j \in 1..4 |-> calc(@[j], r, 0)]]

\* A session as reset(settings) is specified to leave it.
IsReset(g, settings) ==
    /\ g.sealed = [y \in 1..CELL_COUNT_Y |-> [x \in 1..CELL_COUNT_X |-> 0]]
    /\ DOMAIN g.buffered = {}
    /\ g.points = 0 /\ g.level = 1 /\ g.combo = 0
    /\ g.cleared = 0 /\ g.needToClear = 5
    /\ g.settings = settings
    /\ FreshPiece(g.movable, CELL_COUNT_X) /\ getRight(g.movable) <= CELL_COUNT_X - 1
    /\ FreshPiece(g.nextMovable, 0)

\* C22: the step that starts a match resets every session: whatever the
\* state before (a finished match included), the grid is empty, no cube is
\* placed, points = 0, level = 1, combo = 0, cleared = 0, needToClear = 5,
\* the settings are those of the mode selected, and the active and the next
\* piece are two pieces newly returned by the generator (in the multiPlayer
\* view: the two shapes the generator returned since the reset).
C22_ResetReinitialises ==
    [][matches' # matches =>
         \E sel \in Selections :
             /\ gameType = "SINGLEPLAYER" => game'[1].isPlayer1 = sel[2]
             /\ \A s \in Games :
                  /\ IsReset(game'[s], buildSettings(sel[1]))
                  /\ gameType = "MULTIPLAYER" =>
                       drawn'[s] = <<game'[s].movable.kind, game'[s].nextMovable.kind>>]_vars

\* A second match has been reset, in HARD mode, after a MEDIUM match that
\* had scored 150 points came to its end.
C22_Witness ==
    /\ gameType = "SINGLEPLAYER" /\ matches = 2 /\ countdown
    /\ scoreBoard.unknown = 150
    /\ game[1].settings = buildSettings("HARD")

\* The active piece of session g lies in rows 0..1 and columns 0..width-1,
\* and every position from the origin to where it stands, one column to
\* the right at a time, has all its cells inside the grid and unoccupied.
SpawnedFree(g) ==
    LET origin == NewGameObject(g.movable.kind)
    IN  /\ \A c \in ShapeSet(g.movable) : c[2] \in {0, 1} /\ c[1] \in Cols
        /\ \E r \in 0..CELL_COUNT_X :
             /\ g.movable = [origin EXCEPT !.shapes = [j \in 1..4 |-> calc(@[j], r, 0)]]
             /\ \A q \in 0..r : \A c \in ShapeSet(origin) :
                    Free(g.sealed, calc(c, q, 0))

\* C23 (as stated): whenever a piece becomes the active piece, at reset and
\* after every lock, its 4 cells lie in rows 0..1 and columns 0..width-1,
\* and it was shifted right from the origin only through positions in which
\* every cell was inside the grid and unoccupied.
C23_SpawnIsFree ==
    /\ Locked => SpawnedFree(game[lock.s])
    /\ countdown => \A s \in Games : SpawnedFree(game[s])

\* C23 (amended): the same for the reset and for every lock that does not
\* end the match.  (The lock that ends the match makes the next piece the
\* active one before it tests for game over, on whatever lies in rows 0..1.)
C23_SpawnIsFreeInPlay ==
    /\ (Locked /\ view = GameView) => SpawnedFree(game[lock.s])
    /\ countdown => \A s \in Games : SpawnedFree(game[s])

\* A lock has made a piece active and shifted it right, above a stack that
\* reaches row 2, and the match goes on.
C23_Witness ==
    /\ Locked /\ view = GameView
    /\ getLeft(game[lock.s].movable) >= 1
    /\ reduce(game[lock.s].sealed[3], 1) # 0

\* What a session owns: its grid, placed cubes, active and next piece,
\* score, level, cleared counter and combo.
Owned(g) ==
    <<g.sealed, g.buffered, g.movable, g.nextMovable, g.points, g.level,
      g.cleared, g.combo>>

\* The current state with the records of the last handler cleared, as every
\* handler finds it.
Entry == [World EXCEPT !.lock = NoLock, !.pushed = <<>>]

\* The session a key belongs to.
SessionOf(key) == CHOOSE s \in Games : game[s].isPlayer1 = (key[1] = "P1")

\* The outcome w of an operation on session s respects the peer: if it
\* cleared no row the peer owns what it owned, and if the peer's grid or
\* placed cubes changed then pushLine was called on the peer.
RespectsPeer(w, s) ==
    LET peer == 3 - s
    IN  /\ (w.lock = NoLock \/ w.lock.n = 0) =>
              Owned(w.game[peer]) = Owned(game[peer])
        /\ (w.game[peer].sealed # game[peer].sealed
              \/ w.game[peer].buffered # game[peer].buffered) =>
              \E i \in 1..Len(w.pushed) : w.pushed[i][1] = peer

\* C24: in a multiPlayer match, every command of a player and every gravity
\* tick of a session, run in the current state, that clears no row (whether
\* it locks a piece or not) leaves the peer's grid, placed cubes, active
\* piece, next piece, score, level, cleared counter and combo as they are;
\* the peer's board changes only in operations that call pushLine on it.
C24_PeerOwnsItsBoard ==
    (gameType = "MULTIPLAYER" /\ Playing) =>
        /\ \A key \in Keys : \A w \in emit(Entry, key) : RespectsPeer(w, SessionOf(key))
        /\ \A s \in Games : game[s].speedLoop = "live" =>
               \A r \in moveDown(Entry, s) : RespectsPeer(r.w, s)

\* A hard drop that locks a piece without clearing a row, and feeds the
\* shape it draws to the peer's generator, while the peer has placed cubes
\* and an active piece that has moved.
C24_Witness ==
    /\ gameType = "MULTIPLAYER" /\ Playing
    /\ \E key \in Keys :
         /\ key[2] = "FAST_DOWN"
         /\ DOMAIN game[3 - SessionOf(key)].buffered # {}
         /\ getBottom(game[3 - SessionOf(key)].movable) > 1
         /\ \E w \in emit(Entry, key) :
              /\ w.lock # NoLock /\ w.lock.n = 0
              /\ w.movables[3 - SessionOf(key)] # movables[3 - SessionOf(key)]

\* The stats the score board holds for session s.
StatsOf(s) ==
    IF game[s].isPlayer1 THEN scoreBoard.player1Stats ELSE scoreBoard.player2Stats

\* C25: the cleared value send() hands to the score board is the number of
\* rows the session has cleared since its last reset, and the points and
\* level it hands over are the session's final score and level.
C25_SendHandsTotals ==
    view = "winBoard" =>
        \A s \in Games :
            /\ StatsOf(s).cleared = game[s].rows
            /\ StatsOf(s).points = game[s].points
            /\ StatsOf(s).level = game[s].level

\* C26: when a multiPlayer match has ended by game over, the stats the
\* score board holds, from the lock that ended the match on and as long as
\* the win board is up, have isLoser = TRUE for the session whose lock
\* detected the game over and isLoser = FALSE for the other; in the first
\* match and in every later one.
C26_LoserIsTheDetector ==
    /\ (Locked /\ view = "winBoard") =>
          StatsOf(lock.s).isLoser /\ ~StatsOf(3 - lock.s).isLoser
    /\ view = "winBoard" => StatsOf(1).isLoser # StatsOf(2).isLoser

\* The second match of a run has ended by a lock of session 2; the first
\* one, played from the position in which only session 1's stack reaches
\* the top rows, had been ended by a lock of session 1.
C26_Witness ==
    /\ Locked /\ view = "winBoard" /\ matches = 2 /\ lock.s = 2
    /\ locks = MaxPeerLocks + 2

\* The hard-drop key of the player of session s.
FastDownKey(s) == <<IF game[s].isPlayer1 THEN "P1" ELSE "P2", "FAST_DOWN">>

\* Piece obj moved by dx columns and dy rows.
Moved(obj, dx, dy) == [obj EXCEPT !.shapes = [j \in 1..4 |-> calc(@[j], dx, dy)]]

\* C29: a hard-drop command on an enabled session, run in the current
\* state, terminates after at most H + 1 moveDown calls, seals exactly one
\* piece, the one that was active (some rows further down), and returns
\* with the former next piece active, in the game view or with the match
\* ended.
C29_HardDropSealsOne ==
    Playing =>
        \A s \in Games :
            /\ {r.w : r \in FastDownCalls(Entry, s, 0)} = Handler(Entry, s, FastDownKey(s))
            /\ \A r \in FastDownCalls(Entry, s, 0) : r.calls <= CELL_COUNT_Y + 1
            /\ \A w \in Handler(Entry, s, FastDownKey(s)) :
                 /\ w.locks = locks + 1 /\ w.lock # NoLock /\ w.lock.s = s
                 /\ \E d \in 0..CELL_COUNT_Y :
                      /\ w.lock.buffered =
                           BufferedPush(game[s].buffered, Moved(game[s].movable, 0, d).shapes)
                      /\ w.lock.sealed = seal(Moved(game[s].movable, 0, d), game[s].sealed)
                 /\ \E r \in 0..CELL_COUNT_X :
                      w.game[s].movable = Moved(game[s].nextMovable, r, 0)
                 /\ w.view \in {GameView, EndView}

\* A hard drop of a piece that stands where it became active, over an empty
\* column: it takes H moveDown calls (H - 2 descents, the grace call and
\* the sealing call).
C29_Witness ==
    /\ Playing
    /\ \E s \in Games :
         /\ getBottom(game[s].movable) = 1
         /\ \E r \in FastDownCalls(Entry, s, 0) :
              r.calls = CELL_COUNT_Y /\ r.w.lock.graced

\* The state that follows r on a cycle of the four rotation states.
CycleStep(cycle, r) ==
    LET i == CHOOSE i \in 1..4 : cycle[i] = r
    IN  cycle[(i % 4) + 1]

\* The order in which enum RotationIndex declares the states, and the
\* order in which the rotate() methods assign them.
DeclaredCycle == <<"TOP", "LEFT", "BOTTOM", "RIGHT">>
RotateCycle == <<"BOTTOM", "LEFT", "TOP", "RIGHT">>

\* The rotate key of the player of session s.
RotateKey(s) == <<IF game[s].isPlayer1 THEN "P1" ELSE "P2", "ROTATE">>

\* rotate() on the active piece of every session, when it is not an O
\* piece: the rotation state advances by one step along the cycle; the
\* four cells are replaced by the piece's tetromino a quarter turn on,
\* placed within two cells of the pivot and moving along with the pivot;
\* and this is what a rotate command that the board allows does.
RotatesAlong(cycle) ==
    Playing =>
        \A s \in Games :
            LET obj   == game[s].movable
                pivot == obj.shapes[obj.main]
                N     == Normalised(ShapeSet(obj))
            IN  obj.kind # "Box" =>
                  /\ rotate(obj).rotationIndex = CycleStep(cycle, obj.rotationIndex)
                  /\ rotate(obj).kind = obj.kind
                  /\ Cardinality(ShapeSet(rotate(obj))) = 4
                  /\ Normalised(ShapeSet(rotate(obj))) \in {Turned(N), Turned(Turned(Turned(N)))}
                  /\ \A c \in ShapeSet(rotate(obj)) :
                        /\ c[1] - pivot[1] \in -2..2
                        /\ c[2] - pivot[2] \in -2..2
                  /\ \A dx \in -1..1, dy \in 0..1 :
                        rotate(Moved(obj, dx, dy)) = Moved(rotate(obj), dx, dy)
                  /\ canRotate(obj, game[s].sealed) =>
                        Handler(Entry, s, RotateKey(s)) =
                            {[Entry EXCEPT !.game[s].movable = rotate(obj)]}

UniformBoard(v) == [y \in 1..CELL_COUNT_Y |-> [x \in 1..CELL_COUNT_X |-> v]]

\* C28: for an active O piece canRotate is false, on the session's board
\* as on an empty and on a full one, rotate() leaves the 4 cells and the
\* rotation state as they are, and a rotate command changes nothing.
C28_BoxNeverRotates ==
    Playing =>
        \A s \in Games :
            LET obj == game[s].movable
            IN  obj.kind = "Box" =>
                  /\ ~canRotate(obj, game[s].sealed)
                  /\ ~canRotate(obj, UniformBoard(0))
                  /\ ~canRotate(obj, UniformBoard(1))
                  /\ rotate(obj).shapes = obj.shapes
                  /\ rotate(obj).rotationIndex = obj.rotationIndex
                  /\ Handler(Entry, s, RotateKey(s)) = {Entry}

\* An active O piece that has moved away from the place where it became
\* active and has free cells to its left and below, on a board with cubes.
C28_Witness ==
    /\ Playing
    /\ \E s \in Games :
         LET obj == game[s].movable
         IN  /\ obj.kind = "Box" /\ game[s].isEnabled
             /\ getLeft(obj) >= 1 /\ getBottom(obj) \in 2..CELL_COUNT_Y - 2
             /\ canGoLeft(obj, game[s].sealed) /\ canGoDown(obj, game[s].sealed)
             /\ game[s].sealed # UniformBoard(0)

\* The test moveDown opens with: the active piece of g cannot descend.
Unable(g) == getBottom(g.movable) = CELL_COUNT_Y - 1 \/ ~canGoDown(g.movable, g.sealed)

\* The active piece of session s has used a grace tick and has not
\* descended since.
GraceSpent(s) == graced[s] /\ ~game[s].lastMove

\* The move-left, move-right and rotate keys of the player of session s.
SideKeys(s) ==
    {<<IF game[s].isPlayer1 THEN "P1" ELSE "P2", c>> :
        c \in {"MOVE_LEFT", "MOVE_RIGHT", "ROTATE"}}

\* A move to the side or a rotation of a piece that has spent its grace
\* tick leaves the grace tick spent, and if the piece still cannot descend
\* the moveDown call that follows seals it where it stands.
SideMoveKeepsGraceSpent ==
    Playing =>
        \A s \in Games :
            GraceSpent(s) =>
                \A key \in SideKeys(s) :
                    \A w \in Handler(Entry, s, key) :
                        /\ ~w.game[s].lastMove /\ w.graced[s]
                        /\ Unable(w.game[s]) =>
                              \A r \in moveDown(w, s) :
                                  /\ ~r.ret /\ r.w.locks = locks + 1
                                  /\ r.w.lock.s = s /\ r.w.lock.graced
                                  /\ r.w.lock.sealed =
                                        seal(w.game[s].movable, game[s].sealed)

\* A piece that has spent its grace tick has a grace tick again only
\* through a step in which it descends by one row.
GraceOnlyByDescent ==
    \A s \in Games :
        (GraceSpent(s) /\ game'[s].lastMove) =>
            game'[s].movable = down(game[s].movable)

\* C30: once a piece has used its grace tick, a lateral move or a rotation
\* that leaves it unable to descend grants no new grace tick, and the next
\* moveDown call seals it; a grace tick becomes available again only when
\* the piece has descended by one row.
C30_NoSecondGrace == [](SideMoveKeepsGraceSpent) /\ [][GraceOnlyByDescent]_vars

\* A piece that has used its grace tick stands, unable to descend, with one
\* of its cubes right under a placed cube: it came there by a move to the
\* side or a rotation made after the grace tick.
C30_Witness ==
    /\ Playing
    /\ \E s \in Games :
         /\ GraceSpent(s) /\ game[s].isEnabled /\ Unable(game[s])
         /\ \E c \in ShapeSet(game[s].movable) :
              SealedAt(game[s].sealed, c[1], c[2] - 1) = 1

\* The row of a cube of the piece that rotate() leaves in place: the row
\* of mainShape, which rotate() keeps as the first cube of every shape but
\* LineBox; LineBox.rotate() hands mainShape on to a cube one row further
\* down on the way to the states TOP and RIGHT and back up after them.
\* Box has no mainShape and does not rotate: its first cube serves.
AnchorRow(obj) ==
    IF obj.kind = "Box" THEN obj.shapes[1][2]
    ELSE obj.shapes[obj.main][2]
           - (IF obj.kind = "LineBox" /\ obj.rotationIndex \in {"TOP", "RIGHT"}
              THEN 1 ELSE 0)

\* A bound on the moveDown calls the active piece of g can still take, the
\* sealing one included: two for every row below the anchor row (a step
\* down and the grace call it pays for), one for a grace call that is
\* already paid for (lastMove), and the call that seals.
TicksLeft(g) ==
    2 * (CELL_COUNT_Y - 1 - AnchorRow(g.movable)) + (IF g.lastMove THEN 1 ELSE 0) + 1

\* The piece of session s that is active before the step is still the
\* active one after it.
SamePiece(s) ==
    /\ Playing /\ Playing' /\ matches' = matches
    /\ ~(locks' # locks /\ lock'.s = s)

\* In every state of a match: the bound is between 1 and 2 * H + 2; a
\* moveDown call that does not seal the piece lowers it by one at least;
\* a move-left, move-right or rotate command does not raise it.
TicksLeftInState ==
    Playing =>
        \A s \in Games :
            /\ TicksLeft(game[s]) \in 1..(2 * CELL_COUNT_Y + 2)
            /\ game[s].isEnabled =>
                  /\ \A r \in moveDown(Entry, s) :
                        IF r.ret
                        THEN /\ r.w.locks = locks
                             /\ TicksLeft(r.w.game[s]) <= TicksLeft(game[s]) - 1
                        ELSE r.w.locks = locks + 1 /\ r.w.lock.s = s
                  /\ \A key \in SideKeys(s) :
                        \A w \in Handler(Entry, s, key) :
                            w.locks = locks /\ TicksLeft(w.game[s]) <= TicksLeft(game[s])

\* No step in which a piece stays the active one raises its bound: no
\* command of its player, none of the peer, no pushLine call.
TicksLeftInStep ==
    \A s \in Games : SamePiece(s) => TicksLeft(game'[s]) <= TicksLeft(game[s])

\* C31: under any interleaving of commands, gravity ticks and pushLine
\* calls of the peer, every active piece is sealed by the (2 * H + 2)-th
\* gravity tick at the latest: the number of gravity ticks it can still
\* take is bounded by TicksLeft, which starts at 2 * H + 2 at most, falls
\* with every gravity tick that does not seal and is raised by nothing.
C31_LockWithinTicks == [](TicksLeftInState) /\ [][TicksLeftInStep]_vars

\* A piece whose lock a command has put off: it has taken a grace call,
\* has then been moved or rotated so that it could descend again, and has
\* descended, which pays for another grace call.
C31_Witness ==
    /\ Playing
    /\ \E s \in Games :
         /\ graced[s] /\ game[s].lastMove /\ game[s].isEnabled
         /\ Unable(game[s])

\* The active piece of g lies inside the grid on cells no placed cube
\* occupies, and the same for the piece moved by dx columns and dy rows.
Clear(g) == \A c \in ShapeSet(g.movable) : Free(g.sealed, c)
ClearAt(g, dx, dy) == \A c \in ShapeSet(g.movable) : Free(g.sealed, calc(c, dx, dy))

\* The move-left and move-right keys of the player of session s.
LeftKey(s) == <<IF game[s].isPlayer1 THEN "P1" ELSE "P2", "MOVE_LEFT">>
RightKey(s) == <<IF game[s].isPlayer1 THEN "P1" ELSE "P2", "MOVE_RIGHT">>

\* C32: for an active piece that overlaps no placed cube, a move-left
\* command, a move-right command and the step down of moveDown move the
\* piece by one cell if and only if the 4 cells moved by one cell lie
\* inside the grid and are unoccupied; otherwise the command leaves the
\* piece where it is and moveDown takes its other branch.  The tests the
\* code makes (edge of the piece, then the cube at the end of each row or
\* column) agree with the test of all four cells.
C32_GuardIsFullCheck ==
    Playing =>
        \A s \in Games :
            (game[s].isEnabled /\ Clear(game[s])) =>
                LET obj    == game[s].movable
                    sealed == game[s].sealed
                IN  /\ (getLeft(obj) > 0 /\ canGoLeft(obj, sealed)) <=> ClearAt(game[s], -1, 0)
                    /\ (getRight(obj) < CELL_COUNT_X - 1 /\ canGoRight(obj, sealed))
                          <=> ClearAt(game[s], 1, 0)
                    /\ ~Unable(game[s]) <=> ClearAt(game[s], 0, 1)
                    /\ Handler(Entry, s, LeftKey(s)) =
                          {IF ClearAt(game[s], -1, 0)
                           THEN [Entry EXCEPT !.game[s].movable = Moved(obj, -1, 0)]
                           ELSE Entry}
                    /\ Handler(Entry, s, RightKey(s)) =
                          {IF ClearAt(game[s], 1, 0)
                           THEN [Entry EXCEPT !.game[s].movable = Moved(obj, 1, 0)]
                           ELSE Entry}
                    /\ \A r \in moveDown(Entry, s) :
                          r.w.game[s].movable = Moved(obj, 0, 1) <=> ClearAt(game[s], 0, 1)

\* A piece that overlaps nothing and is held up by a cube that is not in
\* its lowest row: the cells under its lowest cubes are free, the cell
\* under a cube further up is occupied.
C32_Witness ==
    /\ Playing
    /\ \E s \in Games :
         LET obj == game[s].movable
         IN  /\ game[s].isEnabled /\ Clear(game[s])
             /\ ~canGoDown(obj, game[s].sealed)
             /\ \A c \in ShapeSet(obj) :
                   c[2] = getBottom(obj) => Free(game[s].sealed, calc(c, 0, 1))

\* No row of the board of any session is completely full, and the handler
\* that ran last made one pushLine call at most.
NoFullRow ==
    /\ \A s \in Games :
          \A y \in 1..Len(game[s].sealed) : reduce(game[s].sealed[y], 1) < CELL_COUNT_X
    /\ Len(pushed) <= 1

\* A handler that calls pushLine on session s: the call comes from the
\* lock of the peer, clears no row of s and awards s nothing, and no call
\* goes back to the peer.
PushClearsNothing ==
    \A s \in Games :
        (pushed' # <<>> /\ pushed'[1][1] = s) =>
            /\ pushed' = << <<s, pushed'[1][2]>> >>
            /\ lock'.s = 3 - s /\ lock'.n >= 1
            /\ game'[s].points = game[s].points /\ game'[s].rows = game[s].rows
            /\ game'[s].cleared = game[s].cleared /\ game'[s].level = game[s].level
            /\ PushedOnto(game[s], game'[s], pushed'[1][2])

\* C33: between handlers no row of any session's board is completely
\* full; so the clear pass pushLine runs after each garbage row clears
\* nothing, awards no points and calls pushLine on nobody: a lock makes
\* one pushLine call at most, and that call makes none.
C33_NoFullRowBetweenHandlers == [](NoFullRow) /\ [][PushClearsNothing]_vars

\* A pushLine call of two rows or more has just been made on a session
\* whose board had cubes before: they now stand on the garbage rows.
C33_Witness ==
    /\ Playing /\ pushed # <<>> /\ pushed[1][2] >= 2
    /\ LET g == game[pushed[1][1]]
       IN  /\ reduce(g.sealed[CELL_COUNT_Y], 1) = CELL_COUNT_X - 1
           /\ reduce(g.sealed[CELL_COUNT_Y - pushed[1][2]], 1) > 0

\* C34: in a singlePlayer match, in every state from reset to game over,
\* the 4 cells of the active piece lie inside the grid and none of them
\* is a cell a placed cube occupies.
C34_ActiveOverlapsNothing ==
    (gameType = "SINGLEPLAYER" /\ view = GameView) => Clear(game[1])

\* C35: a handler that calls pushLine on a session whose active piece
\* overlaps no placed cube leaves that piece, where it stands, overlapping
\* no placed cube.
C35_PushKeepsPieceClear ==
    [][\A s \in Games :
          (/\ pushed' # <<>> /\ pushed'[1][1] = s
           /\ view' = GameView
           /\ Clear(game[s])
           /\ game'[s].movable = game[s].movable)
          => Clear(game'[s])]_vars

\* The piece after n calls of rotate().
RECURSIVE Rotated(_, _)
Rotated(obj, n) == IF n = 0 THEN obj ELSE rotate(Rotated(obj, n - 1))

\* The position of mainShape.
Pivot(obj) == obj.shapes[obj.main]

\* C36: where canRotate allows four rotations in a row, the piece after
\* the four calls of rotate() has the set of 4 cells it had, its pivot
\* cube where it was, and the rotation state it had: for every shape,
\* LineBox with its pivot handed on at every rotation included.
C36_FourRotationsReturn ==
    Playing =>
        \A s \in Games :
            LET obj == game[s].movable
            IN  (\A n \in 0..3 : canRotate(Rotated(obj, n), game[s].sealed)) =>
                  /\ ShapeSet(Rotated(obj, 4)) = ShapeSet(obj)
                  /\ Pivot(Rotated(obj, 4)) = Pivot(obj)
                  /\ Rotated(obj, 4).rotationIndex = obj.rotationIndex
                  /\ \A n \in 1..3 : Rotated(obj, n).rotationIndex # obj.rotationIndex

\* A LineBox that has moved down and been rotated once stands where four
\* more rotations are allowed.
C36_Witness ==
    /\ Playing
    /\ \E s \in Games :
         LET obj == game[s].movable
         IN  /\ obj.kind = "LineBox" /\ obj.rotationIndex = "LEFT"
             /\ game[s].isEnabled
             /\ \A n \in 0..3 : canRotate(Rotated(obj, n), game[s].sealed)

\* C37: every session has one running gravity timer at most, the one
\* speedLoop refers to; and in every state a start of the timer (enable,
\* the resetSpeedInterval of a level-up) leaves exactly one running, a
\* clearInterval or disable none.
C37_OneTimerPerSession ==
    \A s \in Games :
        /\ game[s].timers \in {0, 1}
        /\ game[s].timers = 1 <=> game[s].speedLoop = "live"
        /\ resetSpeedInterval(game[s]).timers = 1
        /\ enable(game[s]).timers = 1
        /\ clearInterval(game[s]).timers = 0
        /\ disable(game[s]).timers = 0

\* A lock has levelled the session up while its timer was running and the
\* match goes on: the timer has been restarted and one is running.
C37_Witness ==
    /\ Playing /\ Locked
    /\ game[lock.s].level = lock.level + 1
    /\ game[lock.s].isEnabled /\ game[lock.s].timers = 1
\* ------------------------------------------------------------ C38
\* The number of save() calls made with a value above v.
SavedAbove(sb, v) == SumSaved(sb, {u \in DOMAIN sb.saved : u > v})
\* The entries with the value v that the 10 highest saved values hold.
KeptOf(sb, v) ==
    LET room == MaxScores - SavedAbove(sb, v)
    IN  IF room <= 0 THEN 0
        ELSE IF SavedCount(sb, v) < room THEN SavedCount(sb, v) ELSE room

TenHighestSaved ==
    LET scores == scoreBoard.scores
    IN  /\ Len(scores) <= MaxScores
        /\ \A i \in 1..Len(scores) - 1 : scores[i].value >= scores[i + 1].value
        /\ \A i \in 1..Len(scores) : scores[i].value \in DOMAIN scoreBoard.saved
        /\ \A v \in DOMAIN scoreBoard.saved :
              CountValue(scores, v) = KeptOf(scoreBoard, v)

\* A step that changes the list is a save() of the pending score.
SavesPending ==
    scoreBoard'.scores # scoreBoard.scores \/ scoreBoard'.saved # scoreBoard.saved
        => /\ scoreBoard'.unknown = scoreBoard.unknown
           /\ DOMAIN scoreBoard'.saved = DOMAIN scoreBoard.saved \cup {scoreBoard.unknown}
           /\ \A v \in DOMAIN scoreBoard'.saved :
                 SavedCount(scoreBoard', v) =
                     SavedCount(scoreBoard, v) + (IF v = scoreBoard.unknown THEN 1 ELSE 0)
           /\ \A v \in DOMAIN scoreBoard'.saved :
                 CountValue(scoreBoard'.scores, v) <=
                     CountValue(scoreBoard.scores, v) + (IF v = scoreBoard.unknown THEN 1 ELSE 0)

\* C38: after any sequence of save() calls from an empty list, the list holds
\* at most 10 entries, by non-increasing value, and its values are the 10
\* highest values ever saved (all of them while fewer than 10 were saved);
\* each value saved is the pending score of the latest setUnknown().
C38_TenHighestSaved == [](TenHighestSaved) /\ [][SavesPending]_vars

\* More than 10 scores were saved, of different values, and a lower one was
\* dropped from the full list.
C38_Witness ==
    /\ Len(scoreBoard.scores) = MaxScores
    /\ Saves(scoreBoard) > MaxScores
    /\ scoreBoard.scores[1].value > scoreBoard.scores[MaxScores].value
    /\ \E v \in DOMAIN scoreBoard.saved :
         /\ CountValue(scoreBoard.scores, v) < scoreBoard.saved[v]
         /\ v < scoreBoard.scores[MaxScores].value

====
